---- MODULE Spec2Model ----
(***************************************************************************)
(* A model of the Spyfall game orchestrator of bot-party: SpyfallGame.run, *)
(* the question-round loop, the accusation and guess procedures, the       *)
(* voting phase and the scoring, together with the text utilities they     *)
(* rest on (normalizeName, parseField).                                    *)
(*                                                                         *)
(* Strings are sequences of one-character strings, so that trimming,       *)
(* lower-casing and field extraction are computed and not assumed.         *)
(* Players are identified by their index in the player list; the code      *)
(* uses the player's name as id, and setup gives distinct names.           *)
(***************************************************************************)
EXTENDS Integers, Sequences, FiniteSets, TLC

VARIABLES
    running,                \* SpyfallGame.running
    pc,                     \* position of run()
    config,                 \* the GameConfig run() was called with
    players,                \* Player[] built by setupGame
    pack,                   \* the location of the chosen pack
    roundCount,             \* runQuestionRounds locals
    currentAsker,
    lastAsker,
    playersWhoAnswered,
    usedVote,
    actionsUnlockAnnounced,
    turns,
    earlyEnd,               \* EarlyEndResult returned by the round loop
    accusation,             \* the last handleAccusation call: its inputs and tally
    votes,                  \* Map<string, number> of the voting phase, in insertion order
    voteIdx,                \* next player to vote in runVotingPhase
    tally,                  \* TallyResult of tallyVotes
    guess,                  \* the last guessLocation call: its site and raw reply
    spyGuessedRight,
    result,                 \* the announced winner
    calls,                  \* number of controller calls made so far, per kind
    call,                   \* a call of a utility function on its own: its arguments
    ret,                    \* and what it returned
    agents,                 \* run()'s local agents: the mode of each agent it holds
    constructed,            \* the players an Agent was constructed for by setupGame
    cleaned,                \* the agents whose cleanup() was invoked
    releaseFailed,          \* the agents whose provider failed to release its session
    error,                  \* the exception in flight, or the one run() rejected with
    sayOutcome,             \* what became of a failed provider call in Agent.say
    settled,                \* how the promise of run() settled
    promptIdCounter,        \* the counter of nextPromptId, shared by all agents
    says,                   \* the calls of Agent.say made, each with its agent, id and state
    events,                 \* the events onPrompt was given, in order
    reactionFrequency,      \* the reactionFrequency runQuestionRounds was called with
    inFlight,               \* per player, the calls of its controller not yet returned
    exchange,               \* the exchange under way: its target and its reaction calls
    rl,                     \* this.rl: the readline interface of the instance, or null
    openHandles,            \* the readline interfaces created and not closed
    ignoredRuns             \* the calls of run() that returned at once

\* the state of a game, of a utility call on its own, and of the agents of run()
gameVars == <<running, pc, config, players, pack, roundCount, currentAsker, lastAsker,
              playersWhoAnswered, usedVote, actionsUnlockAnnounced, turns, earlyEnd,
              accusation, votes, voteIdx, tally, guess, spyGuessedRight, result, calls>>
utilVars == <<call, ret>>
lifeVars == <<agents, constructed, cleaned, releaseFailed, error, sayOutcome, settled>>

sayVars == <<promptIdCounter, says, events>>

reactVars == <<reactionFrequency, inFlight, exchange>>

instVars == <<rl, openHandles, ignoredRuns>>

vars == <<gameVars, utilVars, lifeVars, sayVars, reactVars, instVars>>

----------------------------------------------------------------------------
(* Bounds of the model *)

MaxPlayers == 3
MaxRounds == 5
MaxVoteEntries == 3
MaxVoteCount == 2

NULL == 0

----------------------------------------------------------------------------
(* Characters and strings *)

UpperChars == <<"A","B","C","D","E","F","G","H","I","J","K","L","M",
                "N","O","P","Q","R","S","T","U","V","W","X","Y","Z">>
LowerChars == <<"a","b","c","d","e","f","g","h","i","j","k","l","m",
                "n","o","p","q","r","s","t","u","v","w","x","y","z">>

\* String.prototype.trim removes white space and line terminators
WhiteSpace == {" ", "\t", "\n", "\r"}
\* what `.` of a RegExp does not match
LineTerminators == {"\n", "\r"}

toLowerCaseChar(c) ==
    IF \E i \in 1..26 : UpperChars[i] = c
    THEN LowerChars[CHOOSE i \in 1..26 : UpperChars[i] = c]
    ELSE c

toLowerCase(s) == [i \in 1..Len(s) |-> toLowerCaseChar(s[i])]

RECURSIVE trimStart(_)
trimStart(s) ==
    IF s # <<>> /\ Head(s) \in WhiteSpace THEN trimStart(Tail(s)) ELSE s

RECURSIVE trimEnd(_)
trimEnd(s) ==
    IF s # <<>> /\ s[Len(s)] \in WhiteSpace
    THEN trimEnd(SubSeq(s, 1, Len(s) - 1))
    ELSE s

trim(s) == trimEnd(trimStart(s))

\* String.prototype.includes
includes(s, t) ==
    \E i \in 0..(Len(s) - Len(t)) : SubSeq(s, i + 1, i + Len(t)) = t

normalizeNameNoLower(s) == trim(s)

normalizeNameNoTrim(s) == toLowerCase(s)

\* normalizeName(s) = s.trim().toLowerCase()
normalizeName(s) == toLowerCase(trim(s))

----------------------------------------------------------------------------
\* parseField: the first case-insensitive match of the key and a colon, then
\* optional white space, then the rest of the line as group 1, trimmed

keyMatchesAtCaseSensitive(key, text, i) ==
    /\ i + Len(key) + 1 <= Len(text)
    /\ SubSeq(text, i + 1, i + Len(key)) = key
    /\ text[i + Len(key) + 1] = ":"

\* the key followed by a colon matches at offset i (0-based), ignoring case
keyMatchesAt(key, text, i) ==
    /\ i + Len(key) + 1 <= Len(text)
    /\ toLowerCase(SubSeq(text, i + 1, i + Len(key))) = toLowerCase(key)
    /\ text[i + Len(key) + 1] = ":"

\* the white space run is greedy and group 1 may be empty, so the first place
\* the key matches is the place the RegExp matches
RECURSIVE takeLine(_)
takeLine(s) ==
    IF s = <<>> \/ Head(s) \in LineTerminators
    THEN <<>>
    ELSE <<Head(s)>> \o takeLine(Tail(s))

parseField(key, text) ==
    IF \E i \in 0..Len(text) : keyMatchesAt(key, text, i)
    THEN LET i == CHOOSE k \in 0..Len(text) :
                     /\ keyMatchesAt(key, text, k)
                     /\ \A j \in 0..(k - 1) : ~keyMatchesAt(key, text, j)
             rest == SubSeq(text, i + Len(key) + 2, Len(text))
         IN  trim(takeLine(trimStart(rest)))
    ELSE <<>>

----------------------------------------------------------------------------
(* Static data: the location catalog and the provider names *)

Casino == <<"C","a","s","i","n","o">>
Beach == <<"B","e","a","c","h">>

\* two entries of LOCATIONS; only the location names matter to the orchestrator
LOCATIONS == <<Beach, Casino>>

DEFAULT_PROVIDER_ROTATION == <<"openai", "anthropic", "google">>

getProviderDisplayName(type) ==
    CASE type = "openai" -> <<"G","P","T">>
      [] type = "anthropic" -> <<"C","l","a","u","d","e">>
      [] type = "google" -> <<"G","e","m","i","n","i">>

Digits == <<"1","2","3","4","5","6","7","8","9">>

\* legacyConfigToSlots with includeHuman = false and the default rotation
legacyConfigToSlots(cfg) ==
    [i \in 1..cfg.numPlayers |->
        [type |-> DEFAULT_PROVIDER_ROTATION[((i - 1) % Len(DEFAULT_PROVIDER_ROTATION)) + 1],
         mode |-> "memory"]]

\* the name setupGame gives the player of slot i
playerName(slots, i) ==
    LET type == slots[i].type
        providerCounts == Cardinality({j \in 1..Len(slots) : slots[j].type = type})
        providerInstanceNum == Cardinality({j \in 1..i : slots[j].type = type})
        baseName == getProviderDisplayName(type)
    IN  IF type = "human" THEN <<"Y","o","u">>
        ELSE IF providerCounts > 1
        THEN baseName \o <<"-", Digits[providerInstanceNum]>>
        ELSE baseName

\* the Player[] of setupGame for a spy index (1-based here)
buildPlayers(slots, spyIndex) ==
    [i \in 1..Len(slots) |->
        [name |-> playerName(slots, i),
         isHuman |-> FALSE,
         kind |-> IF i = spyIndex THEN "SPY" ELSE "CIVILIAN"]]

Ids(ps) == 1..Len(ps)

\* players.find(p => p.secret.kind === "SPY")
spyOf(ps) == CHOOSE i \in Ids(ps) : ps[i].kind = "SPY"

\* Array.prototype.find over player indices: the first of the indices that
\* satisfy the predicate (found), or NULL
findFirst(found) ==
    IF found # {}
    THEN CHOOSE i \in found : \A j \in found : i <= j
    ELSE NULL

----------------------------------------------------------------------------
(* Replies a controller may give: bounded sets of free text *)

Pad(s) == <<" ">> \o toLowerCase(s) \o <<" ", " ">>

\* names as a model or a human may type them
NameInputs(ps) ==
    {ps[i].name : i \in Ids(ps)}
        \cup {Pad(ps[i].name) : i \in Ids(ps)}
        \cup {<<"G","P","T">>, <<"x","y">>, <<>>}

GuessKey == <<"G","U","E","S","S">>
VoteKey == <<"V","O","T","E">>

GuessTexts ==
    { GuessKey \o <<":"," ">> \o Casino,
      GuessKey \o <<":"," ","t","h","e"," ","C","A","S","I","N","O"," ">>,
      <<"g","u","e","s","s",":"," "," ","C","A","S","I","N","O"," ","\r","\n",
        "R","E","A","S","O","N",":"," ","x">>,
      GuessKey \o <<":"," ","C","a","s">>,
      GuessKey \o <<":"," ">> \o Beach,
      Casino,
      <<>> }

VoteTexts(ps) ==
    {VoteKey \o <<":"," ">> \o n : n \in NameInputs(ps)} \cup {<<"G","P","T">>}

Actions == {"question", "guess", "vote"}
AccusationVotes == {"yes", "no", "maybe"}

----------------------------------------------------------------------------
(* utils/random *)

\* pickRandom(arr): any element (of a non-empty array)
pickRandom(S) == S

\* safePickRandom(arr, fallback)
safePickRandom(S, fallback) == IF S # {} THEN pickRandom(S) ELSE {fallback}

----------------------------------------------------------------------------
(* utils/resolveTargetPlayer: the set of players the call may return *)

isIllegalSelfOnly(p, selfId, lastAskerId) == p = selfId

isIllegal(p, selfId, lastAskerId) ==
    p = selfId \/ (lastAskerId # NULL /\ p = lastAskerId)

shortestNamed(ps, candidates) ==
    CHOOSE p \in candidates :
        \A q \in candidates :
            \/ Len(normalizeName(ps[p].name)) < Len(normalizeName(ps[q].name))
            \/ /\ Len(normalizeName(ps[q].name)) = Len(normalizeName(ps[p].name))
               /\ p <= q

\* candidates.sort((a, b) => normalizeName(b.name).length - normalizeName(a.name).length)[0]:
\* the stable sort by descending name length puts this one first
longestNamed(ps, candidates) ==
    CHOOSE p \in candidates :
        \A q \in candidates :
            \/ Len(normalizeName(ps[q].name)) < Len(normalizeName(ps[p].name))
            \/ /\ Len(normalizeName(ps[q].name)) = Len(normalizeName(ps[p].name))
               /\ p <= q

resolveTargetPlayer(ps, targetName, selfId, lastAskerId) ==
    LET target == normalizeName(targetName)
        legal(p) == ~isIllegal(p, selfId, lastAskerId)
        isExact(p) == normalizeName(ps[p].name) = target /\ legal(p)
        exact == findFirst({i \in Ids(ps) : isExact(i)})
        candidates == {p \in Ids(ps) :
                          /\ legal(p)
                          /\ LET name == normalizeName(ps[p].name)
                             IN  /\ name # <<>>
                                 /\ target # <<>>
                                 /\ (includes(target, name) \/ includes(name, target))}
        validOptions == {p \in Ids(ps) : legal(p)}
    IN  IF exact # NULL THEN {exact}
        ELSE IF Cardinality(candidates) = 1 THEN candidates
        ELSE IF Cardinality(candidates) > 1 THEN {longestNamed(ps, candidates)}
        ELSE IF validOptions = {}
             THEN safePickRandom({p \in Ids(ps) : p # selfId}, 1)
             ELSE safePickRandom(validOptions, 1)

----------------------------------------------------------------------------
(* tallyVotes *)

\* Array.prototype.sort((a, b) => b[1] - a[1]) is stable: an entry goes behind
\* every entry whose count is not smaller
RECURSIVE insertDesc(_, _)
insertDesc(sorted, e) ==
    IF sorted = <<>> THEN <<e>>
    ELSE IF Head(sorted).count >= e.count
         THEN <<Head(sorted)>> \o insertDesc(Tail(sorted), e)
         ELSE <<e>> \o sorted

RECURSIVE sortVotes(_)
sortVotes(entries) ==
    IF entries = <<>> THEN <<>>
    ELSE insertDesc(sortVotes(SubSeq(entries, 1, Len(entries) - 1)), entries[Len(entries)])

tallyVotesFirstLast(vs) ==
    LET sortedVotes == sortVotes(vs)
        isTie == Len(sortedVotes) > 1
                    /\ sortedVotes[1].count = sortedVotes[Len(sortedVotes)].count
    IN  [accusedName |-> IF isTie THEN NULL ELSE sortedVotes[1].name, isTie |-> isTie]

tallyVotes(vs) ==
    LET sortedVotes == sortVotes(vs)
        isTie == Len(sortedVotes) > 1 /\ sortedVotes[1].count = sortedVotes[2].count
    IN  [accusedName |-> IF isTie THEN NULL ELSE sortedVotes[1].name, isTie |-> isTie]

\* votes.set(finalVote, (votes.get(finalVote) || 0) + 1)
addVote(vs, name) ==
    IF \E i \in 1..Len(vs) : vs[i].name = name
    THEN [i \in 1..Len(vs) |->
             IF vs[i].name = name THEN [vs[i] EXCEPT !.count = @ + 1] ELSE vs[i]]
    ELSE Append(vs, [name |-> name, count |-> 1])

----------------------------------------------------------------------------
(* setupGame: the pack, the spy, the roles, the players and the agents *)

Human == [type |-> "human", mode |-> "memory"]

\* the roles of the LOCATIONS entry of a location
rolesOf(location) ==
    IF location = Beach
    THEN <<"Lifeguard", "Surfer", "Tourist", "Ice Cream Vendor", "Photographer",
           "Beach Volleyball Player">>
    ELSE <<"Dealer", "Gambler", "Security Guard", "Bartender", "Pit Boss", "Entertainer">>

\* shuffle(arr): any order of the elements
shuffle(arr) ==
    {[i \in 1..Len(arr) |-> arr[p[i]]] : p \in Permutations(1..Len(arr))}

drawRolesWithRepeats(roles, numPlayers) ==
    LET n == IF numPlayers - 1 < Len(roles) THEN numPlayers - 1 ELSE Len(roles)
    IN  [1..n -> {roles[i] : i \in 1..Len(roles)}]

\* shuffle(pack.roles).slice(0, numPlayers - 1)
drawRoles(roles, numPlayers) ==
    LET n == IF numPlayers - 1 < Len(roles) THEN numPlayers - 1 ELSE Len(roles)
    IN  {SubSeq(shuffled, 1, n) : shuffled \in shuffle(roles)}

\* the secret of player i: roles.pop() || "Visitor" for the civilians in turn
secretOf(i, spyIndex, location, roles) ==
    LET civiliansSoFar == Cardinality({j \in 1..i : j # spyIndex})
    IN  IF i = spyIndex
        THEN [kind |-> "SPY", location |-> <<>>, role |-> ""]
        ELSE [kind |-> "CIVILIAN", location |-> location,
              role |-> IF civiliansSoFar <= Len(roles)
                       THEN roles[Len(roles) - civiliansSoFar + 1]
                       ELSE "Visitor"]

\* the Player[] of setupGame with the secrets in full
setupPlayers(slots, spyIndex, location, roles) ==
    [i \in 1..Len(slots) |->
        [name |-> playerName(slots, i),
         isHuman |-> slots[i].type = "human",
         secret |-> secretOf(i, spyIndex, location, roles)]]

\* the pack of a config: the entry named by locationName, any entry when no
\* name is given (undefined and "" are both falsy and both <<>> here), none
\* when the name is not found
selectPack(locationName) ==
    IF locationName # <<>>
    THEN LET found == findFirst({i \in 1..Len(LOCATIONS) :
                          toLowerCase(LOCATIONS[i]) = toLowerCase(locationName)})
         IN  IF found = NULL THEN {} ELSE {LOCATIONS[found]}
    ELSE pickRandom({LOCATIONS[i] : i \in 1..Len(LOCATIONS)})

\* the slots an Agent is constructed for, in order of construction
aiSlots(slots) == {i \in 1..Len(slots) : slots[i].type # "human"}

\* getProviderCapabilities(type).supportsStateful
supportsStateful(type) == type \in {"openai", "google"}

agentModeAsRequested(slot) == slot.mode

\* the mode an Agent ends up in: stateful falls back to memory when the
\* provider does not support it
agentMode(slot) ==
    IF slot.mode = "stateful" /\ supportsStateful(slot.type) THEN "stateful" ELSE "memory"

\* setupGame once the pack, the spy and the roles are drawn: a GameSetup, or
\* an exception together with the agents constructed before it was thrown.
\* The constructor of an Agent throws for a provider in keyless; the ready
\* promise of a stateful Agent rejects for a provider in initFails, and
\* Promise.all(agents.map(a => a.ready)) with it.
setupOutcome(slots, keyless, initFails, location, spyIndex, roles) ==
    LET ps == setupPlayers(slots, spyIndex, location, roles)
        firstKeyless == findFirst({i \in aiSlots(slots) : slots[i].type \in keyless})
        notReady == {i \in aiSlots(slots) : /\ agentMode(slots[i]) = "stateful"
                                            /\ slots[i].type \in initFails}
    IN  IF firstKeyless # NULL
        THEN [threw |-> TRUE, error |-> "API key missing", pack |-> <<>>,
              players |-> <<>>,
              constructed |-> {i \in aiSlots(slots) : i < firstKeyless},
              agents |-> {}]
        ELSE IF notReady # {}
        THEN [threw |-> TRUE, error |-> "Provider init failed", pack |-> <<>>,
              players |-> <<>>, constructed |-> aiSlots(slots), agents |-> {}]
        ELSE [threw |-> FALSE, error |-> "", pack |-> location, players |-> ps,
              constructed |-> aiSlots(slots), agents |-> aiSlots(slots)]

\* what a call of setupGame may give
setupGame(slots, locationName, keyless, initFails) ==
    IF selectPack(locationName) = {}
    THEN {[threw |-> TRUE, error |-> "Location not found", pack |-> <<>>,
           players |-> <<>>, constructed |-> {}, agents |-> {}]}
    ELSE UNION {{setupOutcome(slots, keyless, initFails, location, spyIndex, roles) :
                    spyIndex \in 1..Len(slots),
                    roles \in drawRoles(rolesOf(location), Len(slots))} :
                location \in selectPack(locationName)}

\* the private setupGame of SpyfallGame, the one run() calls: the same players
\* and agents, on pickRandom(LOCATIONS) whatever the config names
thisSetupGame(slots, keyless, initFails) ==
    UNION {{setupOutcome(slots, keyless, initFails, location, spyIndex, roles) :
                spyIndex \in 1..Len(slots),
                roles \in drawRoles(rolesOf(location), Len(slots))} :
            location \in pickRandom({LOCATIONS[i] : i \in 1..Len(LOCATIONS)})}

----------------------------------------------------------------------------
(* The game: state after construction, and run() up to the round loop *)

NoConfig == [numPlayers |-> 0, rounds |-> 0, allowEarlyVote |-> FALSE,
             playerSlots |-> <<>>, locationName |-> <<>>, includeHuman |-> FALSE]
NoEarlyEnd == [ended |-> FALSE, winner |-> "none", reason |-> ""]
NoAccusation == [accuser |-> NULL, accused |-> NULL, ballots |-> <<>>,
                 yesVotes |-> 0, noVotes |-> 0, majority |-> 0, outcome |-> "none"]
NoTally == [accusedName |-> NULL, isTie |-> FALSE]
NoGuess == [site |-> "none", raw |-> <<>>]
NoCalls == [chooseAction |-> 0, ask |-> 0, answer |-> 0, guessLocation |-> 0,
            accuse |-> 0, defendAgainstAccusation |-> 0, voteOnAccusation |-> 0,
            vote |-> 0, react |-> 0]

\* run() holds no agent and has not settled
NoAgents ==
    /\ agents = <<>>
    /\ constructed = {}
    /\ cleaned = {}
    /\ releaseFailed = {}
    /\ error = "none"
    /\ sayOutcome = "none"
    /\ settled = "pending"

\* no agent has been asked to say anything
NoSays ==
    /\ promptIdCounter = 0
    /\ says = <<>>
    /\ events = <<>>

\* no exchange is under way and no controller call is in flight
NoExchange == [target |-> NULL, event |-> "none", active |-> {}, issued |-> {},
               returned |-> {}]

NoReacts ==
    /\ reactionFrequency = "sometimes"
    /\ inFlight = <<>>
    /\ exchange = NoExchange

\* private rl = null, and no call of run() has been made
NoReadline ==
    /\ rl = "null"
    /\ openHandles = 0
    /\ ignoredRuns = 0

\* no utility function is being called on its own
NoCall == [fn |-> "none"]
NoRet == [done |-> FALSE, value |-> NULL]

\* location names a caller may give: none, an entry in other casing, an entry
\* with a space too many, no entry
LocationNames ==
    { <<>>, <<"c","a","s","i","n","O">>, <<"C","a","s","i","n","o"," ">>, <<"A","t","l","a","n","t","i","s">> }

\* the configs of run(): the default rotation on a random location
Configs ==
    [numPlayers : 2..MaxPlayers, rounds : 1..MaxRounds, allowEarlyVote : BOOLEAN,
     playerSlots : {<<>>}, locationName : {<<>>}, includeHuman : {FALSE}]

\* every provider has its API key and initialises its sessions
NoFailures == [keyless |-> {}, initFails |-> {}]

\* config.playerSlots ?? legacyConfigToSlots(config); <<>> is no playerSlots
slotsOf(cfg) ==
    IF cfg.playerSlots # <<>> THEN cfg.playerSlots ELSE legacyConfigToSlots(cfg)

\* the players without what only the prompts use of their secrets
playersOf(setupPlayerList) ==
    [i \in 1..Len(setupPlayerList) |->
        [name |-> setupPlayerList[i].name,
         isHuman |-> setupPlayerList[i].isHuman,
         kind |-> setupPlayerList[i].secret.kind]]

Init ==
    /\ running = FALSE
    /\ pc = "idle"
    /\ config = NoConfig
    /\ players = <<>>
    /\ pack = <<>>
    /\ roundCount = 0
    /\ currentAsker = NULL
    /\ lastAsker = NULL
    /\ playersWhoAnswered = {}
    /\ usedVote = {}
    /\ actionsUnlockAnnounced = FALSE
    /\ turns = <<>>
    /\ earlyEnd = NoEarlyEnd
    /\ accusation = NoAccusation
    /\ votes = <<>>
    /\ voteIdx = 1
    /\ tally = NoTally
    /\ guess = NoGuess
    /\ spyGuessedRight = FALSE
    /\ result = "none"
    /\ calls = NoCalls
    /\ call = NoCall
    /\ ret = NoRet
    /\ NoAgents
    /\ NoSays
    /\ NoReacts
    /\ NoReadline

startsGameAlways(isRunning) == TRUE

\* if (this.running) return: run() goes on to start a game only on an instance
\* that is not running one
startsGame(isRunning) == ~isRunning

\* run(config) on an instance that is not running, for a config of cfgs with
\* the providers as one of envs has them: this.setupGame, which either throws, and
\* run() goes to its finally block with its local agents still empty, or
\* returns, and the locals of runQuestionRounds are set with the first asker
\* picked at random
RunWith(cfgs, envs) ==
    /\ startsGame(running)
    /\ UNCHANGED <<utilVars, sayVars, reactVars, ignoredRuns>>
    /\ \E cfg \in cfgs, env \in envs :
         LET slots == slotsOf(cfg)
         IN  \E setup \in thisSetupGame(slots, env.keyless, env.initFails) :
               /\ running' = TRUE
               /\ rl' = (IF cfg.includeHuman THEN "open" ELSE rl)
               /\ openHandles' = (IF cfg.includeHuman THEN openHandles + 1 ELSE openHandles)
               /\ config' = cfg
               /\ constructed' = setup.constructed
               /\ IF setup.threw
                  THEN /\ error' = setup.error
                       /\ agents' = <<>>
                       /\ players' = <<>>
                       /\ pack' = <<>>
                       /\ currentAsker' = NULL
                       /\ pc' = "finally"
                  ELSE /\ error' = "none"
                       /\ agents' = [i \in setup.agents |-> agentMode(slots[i])]
                       /\ players' = playersOf(setup.players)
                       /\ pack' = setup.pack
                       /\ \E first \in pickRandom(Ids(setup.players)) :
                            currentAsker' = first
                       /\ pc' = "rounds"
    /\ cleaned' = {}
    /\ releaseFailed' = {}
    /\ sayOutcome' = "none"
    /\ settled' = "pending"
    /\ roundCount' = 0
    /\ lastAsker' = NULL
    /\ playersWhoAnswered' = {}
    /\ usedVote' = {}
    /\ actionsUnlockAnnounced' = FALSE
    /\ turns' = <<>>
    /\ earlyEnd' = NoEarlyEnd
    /\ accusation' = NoAccusation
    /\ votes' = <<>>
    /\ voteIdx' = 1
    /\ tally' = NoTally
    /\ guess' = NoGuess
    /\ spyGuessedRight' = FALSE
    /\ result' = "none"
    /\ calls' = NoCalls

Run == RunWith(Configs, {NoFailures})

----------------------------------------------------------------------------
(* runQuestionRounds: one action per kind of loop iteration *)

allowEarlyVote == config.allowEarlyVote

actionsUnlockedByFirstAnswer == playersWhoAnswered # {}

actionsUnlocked == Cardinality(playersWhoAnswered) >= Len(players)

canAccuseIgnoringUse(asker) == allowEarlyVote

canAccuse(asker) == allowEarlyVote /\ asker \notin usedVote

takesGuessAnyone(choice, asker) == choice = "guess"

\* the asker's choice leads to handleEarlySpyGuess
takesGuess(choice, asker) == choice = "guess" /\ players[asker].kind = "SPY"

takesAccusationAlways(choice, asker) == choice = "vote"

\* the asker's choice leads to handleAccusation
takesAccusation(choice, asker) == choice = "vote" /\ canAccuse(asker)

isCorrectIncludes(guessRaw, location) ==
    includes(normalizeName(parseField(GuessKey, guessRaw)), normalizeName(location))

\* const correct = normalizeName(guess) === normalizeName(pack.location)
isCorrect(guessRaw, location) ==
    normalizeName(parseField(GuessKey, guessRaw)) = normalizeName(location)

handleEarlySpyGuessEndsIfRight(guessRaw, location) ==
    IF isCorrect(guessRaw, location)
    THEN [ended |-> TRUE, winner |-> "spy", reason |-> "Spy correctly guessed the location!"]
    ELSE NoEarlyEnd

\* the EarlyEndResult of handleEarlySpyGuess for the spy's reply
handleEarlySpyGuess(guessRaw, location) ==
    IF isCorrect(guessRaw, location)
    THEN [ended |-> TRUE, winner |-> "spy", reason |-> "Spy correctly guessed the location!"]
    ELSE [ended |-> TRUE, winner |-> "civilians", reason |-> "Spy guessed wrong!"]

reactorsWithHumans(ps, asker, target) ==
    {p \in Ids(ps) : p # asker /\ p # target}

\* players.filter(p => p.id !== currentAsker.id && p.id !== target.id && !p.isHuman)
reactors(ps, asker, target) ==
    {p \in Ids(ps) : p # asker /\ p # target /\ ~ps[p].isHuman}

nextAskerStays(asker, target) == asker

\* currentAsker = target: the player who answered asks next
nextAsker(asker, target) == target

recordTurnOverLast(ts, asker, target) ==
    IF ts = <<>> THEN <<[askerId |-> asker, targetId |-> target]>>
    ELSE [ts EXCEPT ![Len(ts)] = [askerId |-> asker, targetId |-> target]]

\* turns.push({ askerId, targetId, question, answer }): the transcript with the
\* Turn of the exchange at its end
recordTurn(ts, asker, target) == Append(ts, [askerId |-> asker, targetId |-> target])

\* the default action of an iteration: ask, resolve the target, reactions to the
\* question, answer, reactions to the answer, record the Turn, hand the turn to
\* the target; made is the calls made before it
AskAndAnswer(made) ==
    \* rawAsk.targetName is any of NameInputs; target is what it resolves to
    \E target \in UNION {resolveTargetPlayer(players, targetName, currentAsker, lastAsker) :
                            targetName \in NameInputs(players)} :
        /\ playersWhoAnswered' = playersWhoAnswered \cup {target}
        /\ actionsUnlockAnnounced' =
              (actionsUnlockAnnounced
                  \/ Cardinality(playersWhoAnswered \cup {target}) >= Len(players))
        /\ turns' = recordTurn(turns, currentAsker, target)
        /\ lastAsker' = currentAsker
        /\ currentAsker' = nextAsker(currentAsker, target)
        /\ calls' = [made EXCEPT
                        !.ask = @ + 1,
                        !.answer = @ + 1,
                        !.react = @ + 2 * Cardinality(reactors(players, currentAsker, target))]
        /\ pc' = "rounds"

\* an iteration in which a question is asked: actions still locked, or the
\* choice is "question", or it is a choice the asker is not eligible for
AskQuestion ==
    /\ pc = "rounds"
    /\ UNCHANGED <<utilVars, lifeVars, sayVars, reactVars, instVars>>
    /\ roundCount < config.rounds
    /\ \E choice \in (IF actionsUnlocked THEN Actions ELSE {"locked"}) :
         /\ ~takesGuess(choice, currentAsker)
         /\ ~takesAccusation(choice, currentAsker)
         /\ AskAndAnswer(IF actionsUnlocked
                         THEN [calls EXCEPT !.chooseAction = @ + 1]
                         ELSE calls)
    /\ roundCount' = roundCount + 1
    /\ accusation' = NoAccusation
    /\ UNCHANGED <<running, config, players, pack, usedVote, earlyEnd, votes, voteIdx,
                   tally, guess, spyGuessedRight, result>>

\* an iteration in which the spy chose "guess"
EarlySpyGuess ==
    /\ pc = "rounds"
    /\ UNCHANGED <<utilVars, lifeVars, sayVars, reactVars, instVars>>
    /\ roundCount < config.rounds
    /\ actionsUnlocked
    /\ takesGuess("guess", currentAsker)
    /\ \E guessRaw \in GuessTexts :
         LET ee == handleEarlySpyGuess(guessRaw, pack)
             made == [calls EXCEPT !.chooseAction = @ + 1, !.guessLocation = @ + 1]
         IN  /\ guess' = [site |-> "early", raw |-> guessRaw]
             /\ IF ee.ended
                THEN /\ earlyEnd' = ee
                     /\ pc' = "earlyEnd"
                     /\ calls' = made
                     /\ UNCHANGED <<playersWhoAnswered, actionsUnlockAnnounced, turns,
                                    lastAsker, currentAsker>>
                ELSE /\ AskAndAnswer(made)
                     /\ UNCHANGED earlyEnd
    /\ roundCount' = roundCount + 1
    /\ accusation' = NoAccusation
    /\ UNCHANGED <<running, config, players, pack, usedVote, votes, voteIdx, tally,
                   spyGuessedRight, result>>

----------------------------------------------------------------------------
(* handleAccusation *)

\* players.find(p => normalizeName(p.name) === normalizeName(accusedName))
findAccused(ps, accusedName) ==
    LET matches(p) == normalizeName(ps[p].name) = normalizeName(accusedName)
    IN  findFirst({i \in Ids(ps) : matches(i)})

isInvalidAccusationUnnamedOnly(accused, accuser) == accused = NULL

\* !accused || accused.id === accuser.id
isInvalidAccusation(accused, accuser) == accused = NULL \/ accused = accuser

\* players.filter(p => p.id !== accuser.id && p.id !== accused.id)
accusationVoters(ps, accuser, accused) ==
    {p \in Ids(ps) : p # accuser /\ p # accused}

countYesNoImplicit(ballots) ==
    Cardinality({v \in DOMAIN ballots : ballots[v] = "yes"})

\* yesVotes: 1 for the accuser, and 1 for each voter answering "yes"
countYes(ballots) ==
    1 + Cardinality({v \in DOMAIN ballots : ballots[v] = "yes"})

\* noVotes: 1 for the accused, and 1 for each voter not answering "yes"
countNo(ballots) ==
    1 + Cardinality({v \in DOMAIN ballots : ballots[v] # "yes"})

majorityHalf(ps) == Len(ps) \div 2

majorityAll(ps) == Len(ps)

\* Math.floor(players.length / 2) + 1
majorityOf(ps) == (Len(ps) \div 2) + 1

\* accused.id === spy.id: the convicted player is the spy, who gets a forced guess
spyWasConvicted(accused, spy) == accused = spy

convictionResultCivilians(accused, spy, guessRaw, location) ==
    IF accused = spy /\ isCorrect(guessRaw, location)
    THEN [ended |-> TRUE, winner |-> "spy",
          reason |-> "Spy was caught but correctly guessed the location!"]
    ELSE [ended |-> TRUE, winner |-> "civilians",
          reason |-> "Spy was caught and couldn't guess the location!"]

\* the EarlyEndResult of a conviction
convictionResult(accused, spy, guessRaw, location) ==
    IF accused = spy
    THEN IF isCorrect(guessRaw, location)
         THEN [ended |-> TRUE, winner |-> "spy",
               reason |-> "Spy was caught but correctly guessed the location!"]
         ELSE [ended |-> TRUE, winner |-> "civilians",
               reason |-> "Spy was caught and couldn't guess the location!"]
    ELSE [ended |-> TRUE, winner |-> "spy",
          reason |-> "Civilians convicted the wrong player"]

AfterAccusationSameAsker(rec, ee, made, g) ==
    /\ accusation' = rec
    /\ calls' = made
    /\ guess' = g
    /\ IF ee.ended
       THEN /\ earlyEnd' = ee
            /\ pc' = "earlyEnd"
            /\ UNCHANGED <<lastAsker, currentAsker>>
       ELSE /\ pc' = "rounds"
            /\ UNCHANGED <<lastAsker, currentAsker, earlyEnd>>

\* what the loop does with the EarlyEndResult of handleAccusation
AfterAccusation(rec, ee, made, g) ==
    /\ accusation' = rec
    /\ calls' = made
    /\ guess' = g
    /\ IF ee.ended
       THEN /\ earlyEnd' = ee
            /\ pc' = "earlyEnd"
            /\ UNCHANGED <<lastAsker, currentAsker>>
       ELSE /\ lastAsker' = currentAsker
            /\ \E next \in pickRandom(Ids(players) \ {currentAsker}) :
                 currentAsker' = next
            /\ pc' = "rounds"
            /\ UNCHANGED earlyEnd

\* an iteration in which the asker chose "vote" and may accuse
Accusation ==
    /\ pc = "rounds"
    /\ UNCHANGED <<utilVars, lifeVars, sayVars, reactVars, instVars>>
    /\ roundCount < config.rounds
    /\ actionsUnlocked
    /\ takesAccusation("vote", currentAsker)
    /\ usedVote' = usedVote \cup {currentAsker}
    \* accusation.targetName is any of NameInputs; accused is the player found
    /\ \E accused \in {findAccused(players, accusedName) :
                          accusedName \in NameInputs(players)} :
         LET accuser == currentAsker
             spy == spyOf(players)
             made0 == [calls EXCEPT !.chooseAction = @ + 1, !.accuse = @ + 1]
         IN  IF isInvalidAccusation(accused, accuser)
             THEN AfterAccusation([NoAccusation EXCEPT !.accuser = accuser,
                                                       !.accused = accused,
                                                       !.outcome = "invalid"],
                                  NoEarlyEnd, made0, guess)
             ELSE \E ballots \in [accusationVoters(players, accuser, accused)
                                     -> AccusationVotes] :
                    LET yesVotes == countYes(ballots)
                        noVotes == countNo(ballots)
                        majority == majorityOf(players)
                        made1 == [made0 EXCEPT
                                    !.defendAgainstAccusation = @ + 1,
                                    !.voteOnAccusation = @ + Cardinality(DOMAIN ballots)]
                        rec == [accuser |-> accuser, accused |-> accused,
                                ballots |-> ballots, yesVotes |-> yesVotes,
                                noVotes |-> noVotes, majority |-> majority,
                                outcome |-> "failed"]
                    IN  IF yesVotes >= majority
                        THEN IF spyWasConvicted(accused, spy)
                             THEN \E guessRaw \in GuessTexts :
                                    AfterAccusation(
                                       [rec EXCEPT !.outcome = "convicted"],
                                       convictionResult(accused, spy, guessRaw, pack),
                                       [made1 EXCEPT !.guessLocation = @ + 1],
                                       [site |-> "accusation", raw |-> guessRaw])
                             ELSE AfterAccusation(
                                       [rec EXCEPT !.outcome = "convicted"],
                                       convictionResult(accused, spy, <<>>, pack),
                                       made1, guess)
                        ELSE AfterAccusation(rec, NoEarlyEnd, made1, guess)
    /\ roundCount' = roundCount + 1
    /\ UNCHANGED <<running, config, players, pack, playersWhoAnswered,
                   actionsUnlockAnnounced, turns, votes, voteIdx, tally,
                   spyGuessedRight, result>>

\* the loop condition fails: runQuestionRounds returns with earlyEnd not ended
RoundsDone ==
    /\ pc = "rounds"
    /\ UNCHANGED <<utilVars, lifeVars, sayVars, reactVars, instVars>>
    /\ roundCount >= config.rounds
    /\ pc' = "voting"
    /\ accusation' = NoAccusation
    /\ UNCHANGED <<running, config, players, pack, roundCount, currentAsker, lastAsker,
                   playersWhoAnswered, usedVote, actionsUnlockAnnounced, turns, earlyEnd,
                   votes, voteIdx, tally, guess, spyGuessedRight, result, calls>>

\* printEarlyEndResult
PrintEarlyEndResult ==
    /\ pc = "earlyEnd"
    /\ UNCHANGED <<utilVars, lifeVars, sayVars, reactVars, instVars>>
    /\ result' = earlyEnd.winner
    /\ pc' = "finally"
    /\ UNCHANGED <<running, config, players, pack, roundCount, currentAsker, lastAsker,
                   playersWhoAnswered, usedVote, actionsUnlockAnnounced, turns, earlyEnd,
                   accusation, votes, voteIdx, tally, guess, spyGuessedRight, calls>>

----------------------------------------------------------------------------
(* The final-vote path of run(): voting, verdict, final guess, score *)

finalVotesSelfToo(ps, p, rawVote) ==
    LET voteName == parseField(VoteKey, rawVote)
        validCandidate == findFirst({i \in Ids(ps) :
                              normalizeName(ps[i].name) = normalizeName(voteName)})
    IN  IF validCandidate # NULL
        THEN {validCandidate}
        ELSE safePickRandom(Ids(ps) \ {p}, 1)

\* the names player p's reply may be counted for: the candidate it names, or
\* a random candidate
finalVotes(ps, p, rawVote) ==
    LET voteName == parseField(VoteKey, rawVote)
        candidates == Ids(ps) \ {p}
        isValid(x) == x # p /\ normalizeName(ps[x].name) = normalizeName(voteName)
        validCandidate == findFirst({i \in Ids(ps) : isValid(i)})
    IN  IF validCandidate # NULL
        THEN {validCandidate}
        ELSE safePickRandom(candidates, 1)

\* one pass of the loop of runVotingPhase: player voteIdx votes
CastVote ==
    /\ pc = "voting"
    /\ UNCHANGED <<utilVars, lifeVars, sayVars, reactVars, instVars>>
    /\ voteIdx <= Len(players)
    \* rawVote is any of VoteTexts; finalVote is the name it is counted for
    /\ \E finalVote \in UNION {finalVotes(players, voteIdx, rawVote) :
                                  rawVote \in VoteTexts(players)} :
         votes' = addVote(votes, finalVote)
    /\ voteIdx' = voteIdx + 1
    /\ calls' = [calls EXCEPT !.vote = @ + 1]
    /\ UNCHANGED <<running, pc, config, players, pack, roundCount, currentAsker,
                   lastAsker, playersWhoAnswered, usedVote, actionsUnlockAnnounced,
                   turns, earlyEnd, accusation, tally, guess, spyGuessedRight, result>>

\* runVotingPhase has returned: tallyVotes and logVerdict
TallyVotes ==
    /\ pc = "voting"
    /\ UNCHANGED <<utilVars, lifeVars, sayVars, reactVars, instVars>>
    /\ voteIdx > Len(players)
    /\ tally' = tallyVotes(votes)
    /\ pc' = "spyGuess"
    /\ UNCHANGED <<running, config, players, pack, roundCount, currentAsker, lastAsker,
                   playersWhoAnswered, usedVote, actionsUnlockAnnounced, turns, earlyEnd,
                   accusation, votes, voteIdx, guess, spyGuessedRight, result, calls>>

spyMayGuessOnlyIfAccused(accusedName, isTie, spy) == accusedName = spy

\* runSpyGuessIfEligible goes on to ask for a guess: the negation of
\* accusedName !== spy.name && !isTie
spyMayGuess(accusedName, isTie, spy) == ~(accusedName # spy /\ ~isTie)

RunSpyGuessIfEligible ==
    /\ pc = "spyGuess"
    /\ UNCHANGED <<utilVars, lifeVars, sayVars, reactVars, instVars>>
    /\ IF spyMayGuess(tally.accusedName, tally.isTie, spyOf(players))
       THEN \E guessRaw \in GuessTexts :
              /\ guess' = [site |-> "final", raw |-> guessRaw]
              /\ spyGuessedRight' = isCorrect(guessRaw, pack)
              /\ calls' = [calls EXCEPT !.guessLocation = @ + 1]
       ELSE /\ spyGuessedRight' = FALSE
            /\ UNCHANGED <<guess, calls>>
    /\ pc' = "score"
    /\ UNCHANGED <<running, config, players, pack, roundCount, currentAsker, lastAsker,
                   playersWhoAnswered, usedVote, actionsUnlockAnnounced, turns, earlyEnd,
                   accusation, votes, voteIdx, tally, result>>

finalWinnerCaughtLoses(accusedName, spy, guessedRight) ==
    IF accusedName = spy THEN "civilians" ELSE "spy"

finalWinnerByGuessOnly(accusedName, spy, guessedRight) ==
    IF guessedRight THEN "spy" ELSE "civilians"

\* the winner printFinalScore announces
finalWinner(accusedName, spy, guessedRight) ==
    IF guessedRight THEN "spy"
    ELSE IF accusedName = spy THEN "civilians"
    ELSE "spy"

PrintFinalScore ==
    /\ pc = "score"
    /\ UNCHANGED <<utilVars, lifeVars, sayVars, reactVars, instVars>>
    /\ result' = finalWinner(tally.accusedName, spyOf(players), spyGuessedRight)
    /\ pc' = "finally"
    /\ UNCHANGED <<running, config, players, pack, roundCount, currentAsker, lastAsker,
                   playersWhoAnswered, usedVote, actionsUnlockAnnounced, turns, earlyEnd,
                   accusation, votes, voteIdx, tally, guess, spyGuessedRight, calls>>

\* the cleanups the finally block invokes before it stops at the first one
\* that rejects
cleanupsOneByOne(agentIds, failed) ==
    {a \in agentIds : \A b \in failed : a <= b}

\* the cleanups the finally block invokes: agents.map(a => a.cleanup()) calls
\* every one of them before Promise.all awaits any
cleanupsInvoked(agentIds, failed) == agentIds

\* the agents whose provider may fail to release what it holds for them: those
\* with a provider-side session
mayFailToRelease(ags) == {a \in DOMAIN ags : ags[a] = "stateful"}

rlCloseNever(handle, handles) == handles

\* this.rl?.close(): the interfaces left open, of handles, once the one of the
\* instance, if it has one, is closed
rlClose(handle, handles) == IF handle = "null" THEN handles ELSE handles - 1

\* provider.cleanup(), whose release of the session fails or not: the failure
\* is swallowed and the promise resolves
providerCleanup(releaseFails) == "resolved"

\* the finally block of run(): the cleanup of every agent run() holds, and,
\* unless one of them rejected, this.running = false. Agent.cleanup awaits
\* provider.cleanup() and Promise.all awaits the cleanups, neither catches: a
\* rejection would leave the finally block at the await, in place of any
\* exception in flight. The game's state is local to run() and is gone when it
\* returns; what was announced stays announced.
Finally ==
    /\ pc = "finally"
    /\ UNCHANGED <<utilVars, sayVars, reactVars, ignoredRuns, agents, constructed, sayOutcome>>
    /\ \E failed \in SUBSET mayFailToRelease(agents) :
         LET invoked == cleanupsInvoked(DOMAIN agents, failed)
             rejected == {a \in invoked : providerCleanup(a \in failed) = "rejected"}
         IN  /\ releaseFailed' = failed \cap invoked
             /\ cleaned' = invoked
             /\ IF rejected = {}
                THEN /\ openHandles' = rlClose(rl, openHandles)
                     /\ rl' = "null"
                     /\ running' = FALSE
                     /\ error' = error
                     /\ settled' = IF error = "none" THEN "resolved" ELSE "rejected"
                ELSE /\ UNCHANGED <<rl, openHandles>>
                     /\ running' = running
                     /\ error' = "Cleanup failed"
                     /\ settled' = "rejected"
    /\ pc' = "done"
    /\ config' = NoConfig
    /\ players' = <<>>
    /\ pack' = <<>>
    /\ roundCount' = 0
    /\ currentAsker' = NULL
    /\ lastAsker' = NULL
    /\ playersWhoAnswered' = {}
    /\ usedVote' = {}
    /\ actionsUnlockAnnounced' = FALSE
    /\ turns' = <<>>
    /\ earlyEnd' = NoEarlyEnd
    /\ accusation' = NoAccusation
    /\ votes' = <<>>
    /\ voteIdx' = 1
    /\ tally' = NoTally
    /\ guess' = NoGuess
    /\ spyGuessedRight' = FALSE
    /\ result' = result
    /\ calls' = NoCalls

Next ==
    \/ Run
    \/ AskQuestion
    \/ EarlySpyGuess
    \/ Accusation
    \/ RoundsDone
    \/ PrintEarlyEndResult
    \/ CastVote
    \/ TallyVotes
    \/ RunSpyGuessIfEligible
    \/ PrintFinalScore
    \/ Finally

Spec == Init /\ [][Next]_vars

----------------------------------------------------------------------------
(* run() with what can go wrong: a location name no pack has, a provider
   without API key, a session that cannot be initialised, a provider call that
   fails during play, a session that cannot be released *)

MaxLifeRounds == 3

\* slot lists: the default rotation, two providers asked for stateful mode of
\* which one supports it, and a human with a stateful and a memory agent
LifeSlotLists ==
    { <<>>,
      <<[type |-> "openai", mode |-> "stateful"],
        [type |-> "anthropic", mode |-> "stateful"]>>,
      <<Human, [type |-> "google", mode |-> "stateful"],
               [type |-> "openai", mode |-> "memory"]>> }

\* location names: none, an entry in other casing, no entry
LifeLocationNames ==
    { <<>>, <<"c","a","s","i","n","O">>, <<"A","t","l","a","n","t","i","s">> }

\* includeHuman is set where a slot is the human's, and only there: the legacy
\* conversion is modelled for includeHuman = false
LifeConfigs ==
    {cfg \in [numPlayers : {2}, rounds : 1..MaxLifeRounds, allowEarlyVote : BOOLEAN,
              playerSlots : LifeSlotLists, locationName : LifeLocationNames,
              includeHuman : BOOLEAN] :
        cfg.includeHuman <=>
            \E i \in DOMAIN cfg.playerSlots : cfg.playerSlots[i].type = "human"}

LifeEnvironments ==
    {NoFailures,
     [keyless |-> {"anthropic"}, initFails |-> {}],
     [keyless |-> {}, initFails |-> {"openai", "google"}]}

RunLife == RunWith(LifeConfigs, LifeEnvironments)

\* what Agent.say does with one call of its provider: sayStateful catches the
\* failure of chatStateful and returns "Error: <message>"; sayWithMemory awaits
\* chat outside any try, and the failure leaves say() as an exception
say(mode, providerFails) ==
    IF ~providerFails THEN "reply"
    ELSE IF mode = "stateful" THEN "error string"
    ELSE "threw"

\* the player whose controller the next step of run() calls first
nextCallee ==
    CASE pc = "rounds" /\ roundCount < config.rounds -> {currentAsker}
      [] pc = "voting" /\ voteIdx <= Len(players) -> {voteIdx}
      [] pc = "spyGuess" /\ spyMayGuess(tally.accusedName, tally.isTie, spyOf(players))
           -> {spyOf(players)}
      [] OTHER -> {}

\* the provider call of an agent fails during play. Nothing between say() and
\* run() catches: an exception leaves run() through its finally block, with
\* nothing announced. An error string is a reply like any other, which the
\* step that asked for it goes on to parse.
ProviderCallFails ==
    /\ pc \in {"rounds", "voting", "spyGuess"}
    /\ \E a \in nextCallee \cap DOMAIN agents :
         /\ sayOutcome' = say(agents[a], TRUE)
         /\ IF say(agents[a], TRUE) = "threw"
            THEN /\ error' = "Provider call failed"
                 /\ pc' = "finally"
            ELSE UNCHANGED <<error, pc>>
    /\ UNCHANGED <<running, config, players, pack, roundCount, currentAsker, lastAsker,
                   playersWhoAnswered, usedVote, actionsUnlockAnnounced, turns, earlyEnd,
                   accusation, votes, voteIdx, tally, guess, spyGuessedRight, result,
                   calls, utilVars, sayVars, reactVars, instVars, agents, constructed, cleaned, releaseFailed, settled>>

NextLife ==
    \/ RunLife
    \/ AskQuestion
    \/ EarlySpyGuess
    \/ Accusation
    \/ RoundsDone
    \/ PrintEarlyEndResult
    \/ CastVote
    \/ TallyVotes
    \/ RunSpyGuessIfEligible
    \/ PrintFinalScore
    \/ ProviderCallFails
    \/ Finally

SpecLife == Init /\ [][NextLife]_vars

----------------------------------------------------------------------------
(* Agent.say on its own: calls of say() of a memory and a stateful agent, which
   overlap as their provider calls are awaited, and the events they emit *)

MaxSays == 4

\* the modes of the agents that are asked
SayAgents == <<"memory", "stateful">>

\* nextPromptId(): ++promptIdCounter
nextPromptId(counter) == counter + 1

\* the event onPrompt is given
promptEvent(id, kind, agent, response) ==
    [id |-> id, kind |-> kind, agent |-> agent, response |-> response]

\* say() up to its provider call: the id is taken and "sent" is emitted
SayBegins ==
    /\ Len(says) < MaxSays
    /\ \E agent \in DOMAIN SayAgents :
         LET id == nextPromptId(promptIdCounter)
         IN  /\ promptIdCounter' = id
             /\ events' = Append(events, promptEvent(id, "sent", agent, ""))
             /\ says' = Append(says, [agent |-> agent, mode |-> SayAgents[agent],
                                      id |-> id, state |-> "awaiting"])
    /\ UNCHANGED <<gameVars, utilVars, lifeVars, reactVars, instVars>>

\* the provider call of say() k is over, with a reply or with a failure: say()
\* emits "received" with what it returns, unless the failure leaves it as an
\* exception
SayEnds(k, providerFails) ==
    LET outcome == say(says[k].mode, providerFails)
    IN  /\ says[k].state = "awaiting"
        /\ says' = [says EXCEPT ![k].state = outcome]
        /\ events' = IF outcome = "threw"
                     THEN events
                     ELSE Append(events, promptEvent(says[k].id, "received",
                                                     says[k].agent, outcome))
        /\ UNCHANGED <<promptIdCounter, gameVars, utilVars, lifeVars, reactVars, instVars>>

ProviderAnswers == \E k \in DOMAIN says : SayEnds(k, FALSE)

ProviderRejects == \E k \in DOMAIN says : SayEnds(k, TRUE)

NextSay ==
    \/ SayBegins
    \/ ProviderAnswers
    \/ ProviderRejects

SpecSay == Init /\ [][NextSay]_vars

----------------------------------------------------------------------------
(* tallyVotes on its own: every vote map up to the bounds, as the unit tests
   call it with maps that no voting phase produced *)

\* vote maps in insertion order: distinct names, counts from 0
VoteMaps ==
    UNION {{m \in [1..n -> [name : 1..MaxVoteEntries, count : 0..MaxVoteCount]] :
               \A i, j \in 1..n : i # j => m[i].name # m[j].name} :
           n \in 1..MaxVoteEntries}

InitTally ==
    /\ running = TRUE
    /\ pc = "voting"
    /\ config = [numPlayers |-> 3, rounds |-> 0, allowEarlyVote |-> FALSE]
    /\ players = buildPlayers(legacyConfigToSlots(config), 3)
    /\ pack = Casino
    /\ roundCount = 0
    /\ currentAsker = 1
    /\ lastAsker = NULL
    /\ playersWhoAnswered = {}
    /\ usedVote = {}
    /\ actionsUnlockAnnounced = FALSE
    /\ turns = <<>>
    /\ earlyEnd = NoEarlyEnd
    /\ accusation = NoAccusation
    /\ votes \in VoteMaps
    /\ voteIdx = Len(players) + 1
    /\ tally = NoTally
    /\ guess = NoGuess
    /\ spyGuessedRight = FALSE
    /\ result = "none"
    /\ calls = NoCalls
    /\ call = NoCall
    /\ ret = NoRet
    /\ NoAgents
    /\ NoSays
    /\ NoReacts
    /\ NoReadline

NextTally == TallyVotes

SpecTally == InitTally /\ [][NextTally]_vars

----------------------------------------------------------------------------
(* What the claims speak of, stated without the operators of the model *)

\* s without its leading and trailing white space, in lower case
TrimLower(s) ==
    LET inked == {i \in 1..Len(s) : s[i] \notin WhiteSpace}
        first == CHOOSE i \in inked : \A j \in inked : i <= j
        last == CHOOSE i \in inked : \A j \in inked : j <= i
    IN  IF inked = {} THEN <<>>
        ELSE [k \in 1..(last - first + 1) |-> toLowerCaseChar(s[first + k - 1])]

\* the reply holds a GUESS field
HasGuessField(raw) == \E i \in 0..Len(raw) : keyMatchesAt(GuessKey, raw, i)

\* the GUESS field of the spy's reply equals the location, up to trim + lower case
GuessMatches == TrimLower(parseField(GuessKey, guess.raw)) = TrimLower(pack)

\* the votes counted for name n in a vote map
VotesFor(vs, n) ==
    IF \E i \in 1..Len(vs) : vs[i].name = n
    THEN vs[CHOOSE i \in 1..Len(vs) : vs[i].name = n].count
    ELSE 0

VotedNames(vs) == {vs[i].name : i \in 1..Len(vs)}

\* n holds the strictly highest count of the map
StrictlyTop(vs, n) ==
    /\ n \in VotedNames(vs)
    /\ \A m \in VotedNames(vs) \ {n} : VotesFor(vs, m) < VotesFor(vs, n)

\* the two highest counts of the map are equal
TopTwoEqual(vs) ==
    \E n, m \in VotedNames(vs) :
        /\ n # m
        /\ VotesFor(vs, n) = VotesFor(vs, m)
        /\ \A k \in VotedNames(vs) : VotesFor(vs, k) <= VotesFor(vs, n)

\* the final-vote path has announced its result
FinalScorePrinted == pc = "finally" /\ ~earlyEnd.ended

\* the voting phase is over and the question of the final guess is settled
FinalGuessSettled == pc \in {"score", "finally"} /\ ~earlyEnd.ended

----------------------------------------------------------------------------
(* Claims *)

C2_FinalGuessIff ==
    /\ FinalGuessSettled =>
          LET eligible == StrictlyTop(votes, spyOf(players)) \/ TopTwoEqual(votes)
          IN  /\ eligible <=> (guess.site = "final" /\ calls.guessLocation = 1)
              /\ ~eligible =>
                    /\ guess.site = "none"
                    /\ calls.guessLocation = 0
                    /\ spyGuessedRight = FALSE
    /\ pc \in {"voting", "spyGuess"} => calls.guessLocation = 0

C2_Witness ==
    /\ FinalGuessSettled
    /\ TopTwoEqual(votes)
    /\ guess.site = "final"
    /\ calls.guessLocation = 1

\* C3: for every non-empty vote map tallyVotes gives isTie = true and
\* accusedName = null when the two highest counts are equal, and otherwise
\* isTie = false and the one name with the strictly highest count; a map of
\* one entry is never a tie.
C3_TallyVotes ==
    (pc = "spyGuess" /\ votes # <<>>) =>
        /\ TopTwoEqual(votes) => (tally.isTie /\ tally.accusedName = NULL)
        /\ ~TopTwoEqual(votes) =>
              /\ ~tally.isTie
              /\ tally.accusedName # NULL
              /\ StrictlyTop(votes, tally.accusedName)
        /\ Len(votes) = 1 => (~tally.isTie /\ tally.accusedName = votes[1].name)

\* a tie of the two highest counts above a lower third count
C3_Witness ==
    /\ pc = "spyGuess"
    /\ Len(votes) = 3
    /\ tally.isTie
    /\ \E i \in 1..3 : \A j \in 1..3 : j # i => votes[i].count < votes[j].count


\* the replies of GuessTexts the claims single out
GuessTheCasino == GuessKey \o <<":"," ","t","h","e"," ","C","A","S","I","N","O"," ">>
GuessCasinoShouted ==
    <<"g","u","e","s","s",":"," "," ","C","A","S","I","N","O"," ","\r","\n",
      "R","E","A","S","O","N",":"," ","x">>

\* the guess of the given site has been judged
GuessJudged(site) ==
    /\ guess.site = site
    /\ IF site = "final" THEN FinalGuessSettled ELSE earlyEnd.ended

\* the judgement of the last guess: the spy's guess counted as correct
JudgedCorrect ==
    IF guess.site = "final" THEN spyGuessedRight ELSE earlyEnd.winner = "spy"

\* C4: at the three guess sites (early guess, guess after a conviction, guess
\* after the final vote) the guess counts as correct iff trim + lower case of
\* the GUESS field equals trim + lower case of the location; a reply without
\* a GUESS field counts as wrong, and so does a field that only contains or is
\* contained in the location.
C4_GuessExact ==
    \A site \in {"early", "accusation", "final"} :
        GuessJudged(site) =>
            /\ JudgedCorrect <=> GuessMatches
            /\ site # "final" => (earlyEnd.winner = "civilians" <=> ~GuessMatches)
            /\ ~HasGuessField(guess.raw) => ~JudgedCorrect
            /\ LET field == TrimLower(parseField(GuessKey, guess.raw))
               IN  (field # TrimLower(pack)
                      /\ (includes(field, TrimLower(pack)) \/ includes(TrimLower(pack), field)))
                     => ~JudgedCorrect

\* a convicted spy whose guess holds the location as a substring loses
C4_Witness ==
    /\ GuessJudged("accusation")
    /\ guess.raw = GuessTheCasino
    /\ pack = Casino
    /\ earlyEnd.winner = "civilians"

\* C5 as stated: a guess whose text is "the CASINO " is accepted for the
\* location "Casino".
C5_TheCasinoAccepted ==
    (GuessJudged("early") /\ guess.raw = GuessTheCasino /\ pack = Casino)
        => earlyEnd.winner = "spy"

\* C5 as amended: a guess that differs from the location only in casing and
\* surrounding white space (" CASINO ") is accepted for "Casino"; the guess
\* "the CASINO " is not, it is a wrong guess and the civilians win.
C5_CasingAndSpaceOnly ==
    (GuessJudged("early") /\ pack = Casino) =>
        /\ guess.raw = GuessCasinoShouted => earlyEnd.winner = "spy"
        /\ guess.raw = GuessTheCasino => earlyEnd.winner = "civilians"

C5_Witness ==
    /\ GuessJudged("early")
    /\ pack = Casino
    /\ guess.raw = GuessCasinoShouted
    /\ earlyEnd.winner = "spy"

\* C6: once the spy has chosen "guess" the round loop is over whatever the
\* guess: the iteration makes the chooseAction and guessLocation calls only,
\* no controller call is made and no Turn recorded afterwards, whatever the
\* remaining round budget, and the announced winner is the spy iff the guess is
\* correct and the civilians otherwise.
C6_EarlyGuessEnds ==
    /\ [](guess.site = "early" =>
            /\ pc \in {"earlyEnd", "finally"}
            /\ earlyEnd.ended
            /\ pc = "finally" =>
                  result = (IF GuessMatches THEN "spy" ELSE "civilians"))
    /\ [][/\ (guess.site # "early" /\ guess'.site = "early") =>
                /\ calls' = [calls EXCEPT !.chooseAction = @ + 1,
                                          !.guessLocation = @ + 1]
                /\ turns' = turns
                /\ votes' = votes
          /\ (guess.site = "early" /\ pc' # "done") =>
                /\ calls' = calls
                /\ turns' = turns
                /\ votes' = votes
                /\ roundCount' = roundCount]_vars

\* a wrong early guess ended the game with rounds to spare
C6_Witness ==
    /\ guess.site = "early"
    /\ pc = "finally"
    /\ result = "civilians"
    /\ roundCount < config.rounds

\* C7: with early accusation disabled and no guess by the spy every iteration
\* records one Turn, and the voting phase starts after exactly `rounds`
\* iterations with exactly `rounds` turns in the transcript.
C7_ExactlyRoundsTurns ==
    (~allowEarlyVote /\ guess.site = "none" /\ pc \in {"rounds", "voting"}) =>
        /\ Len(turns) = roundCount
        /\ pc = "voting" => (roundCount = config.rounds /\ Len(turns) = config.rounds)

\* the voting phase starts after MaxRounds rounds in which choices were offered
C7_Witness ==
    /\ pc = "voting"
    /\ voteIdx = 1
    /\ ~allowEarlyVote
    /\ config.rounds = MaxRounds
    /\ Len(turns) = MaxRounds
    /\ calls.chooseAction > 0


\* the last accusation named a player other than the accuser and went to a vote
AccusationResolved == accusation.outcome \in {"convicted", "failed"}

\* the other voters of the last accusation who answered "yes"
YesVoters == {v \in DOMAIN accusation.ballots : accusation.ballots[v] = "yes"}

\* C8: an accusation with a valid target convicts iff 1 (the accuser) plus the
\* number of other voters answering "yes" is at least floor(N/2)+1, N the
\* number of players; the accused and every answer other than "yes" count as no.
C8_ConvictIffMajority ==
    AccusationResolved =>
        LET N == Len(players)
        IN  /\ DOMAIN accusation.ballots =
                   Ids(players) \ {accusation.accuser, accusation.accused}
            /\ accusation.yesVotes = 1 + Cardinality(YesVoters)
            /\ accusation.noVotes = 1 + Cardinality(DOMAIN accusation.ballots \ YesVoters)
            /\ accusation.yesVotes + accusation.noVotes = N
            /\ accusation.outcome = "convicted"
                   <=> 1 + Cardinality(YesVoters) >= (N \div 2) + 1

\* three players, the only other voter answers "maybe": counted as no, and
\* the accuser's yes alone is below the majority of 2
C8_Witness ==
    /\ accusation.outcome = "failed"
    /\ Len(players) = 3
    /\ \E v \in DOMAIN accusation.ballots : accusation.ballots[v] = "maybe"
    /\ accusation.yesVotes = 1
    /\ accusation.noVotes = 2

\* C9 as stated: in a 2-player game an accusation of the other player always
\* reaches the majority through the two implicit votes.
C9_TwoPlayersConvict ==
    (Len(players) = 2 /\ AccusationResolved) => accusation.outcome = "convicted"

\* C9 as amended: in a 2-player game an accusation of the other player has no
\* voter besides the two implicit votes, 1 yes and 1 no, the majority is 2 and
\* the accusation never convicts.
C9_TwoPlayersNeverConvict ==
    (Len(players) = 2 /\ AccusationResolved) =>
        /\ DOMAIN accusation.ballots = {}
        /\ accusation.yesVotes = 1
        /\ accusation.noVotes = 1
        /\ accusation.majority = 2
        /\ accusation.outcome = "failed"
        /\ ~earlyEnd.ended

C9_Witness ==
    /\ Len(players) = 2
    /\ accusation.outcome = "failed"
    /\ accusation.accused # NULL
    /\ accusation.accused # accusation.accuser
    /\ pc = "rounds"

\* C10: a convicted spy makes one forced guess and wins iff it is correct, the
\* civilians win otherwise; a convicted civilian makes the spy win with no
\* guess requested; without a conviction no winner is set and the loop goes on.
C10_AccusationOutcomes ==
    /\ [](accusation.outcome = "convicted" =>
            /\ earlyEnd.ended
            /\ pc \in {"earlyEnd", "finally"}
            /\ IF accusation.accused = spyOf(players)
               THEN /\ guess.site = "accusation"
                    /\ earlyEnd.winner = (IF GuessMatches THEN "spy" ELSE "civilians")
               ELSE /\ guess.site = "none"
                    /\ earlyEnd.winner = "spy"
            /\ pc = "finally" => result = earlyEnd.winner)
    /\ [][accusation'.outcome \in {"convicted", "failed"} /\ accusation' # accusation =>
            /\ calls'.guessLocation = calls.guessLocation +
                  (IF accusation'.outcome = "convicted"
                      /\ accusation'.accused = spyOf(players) THEN 1 ELSE 0)
            /\ accusation'.outcome = "failed" =>
                  /\ earlyEnd' = NoEarlyEnd
                  /\ result' = "none"
                  /\ pc' = "rounds"
                  /\ turns' = turns
                  /\ currentAsker' # currentAsker]_vars

\* a civilian is convicted: the spy wins and made no guess
C10_Witness ==
    /\ accusation.outcome = "convicted"
    /\ accusation.accused # spyOf(players)
    /\ pc = "finally"
    /\ result = "spy"
    /\ calls.guessLocation = 0


\* the last accusation named the spy and every other voter answered "yes"
SpyAccusedUnanimously ==
    /\ AccusationResolved
    /\ allowEarlyVote
    /\ accusation.accused = spyOf(players)
    /\ \A v \in DOMAIN accusation.ballots : accusation.ballots[v] = "yes"

\* the game ended with the convicted spy's forced guess deciding the winner
EndedByForcedGuess ==
    /\ accusation.outcome = "convicted"
    /\ earlyEnd.ended
    /\ pc \in {"earlyEnd", "finally"}
    /\ guess.site = "accusation"
    /\ earlyEnd.winner = (IF GuessMatches THEN "spy" ELSE "civilians")
    /\ votes = <<>>
    /\ pc = "finally" => result = earlyEnd.winner

\* C11 as stated: for every player count, an accusation of the spy that gets a
\* yes from every remaining player ends the game at once with the spy's forced
\* guess deciding the winner.
C11_UnanimousEndsGame == SpyAccusedUnanimously => EndedByForcedGuess

\* C11 as amended: the same for every player count of at least 3, with no
\* round, call or vote after the forced guess; with 2 players there is no
\* remaining voter, the accuser's yes is below the majority of 2, the
\* accusation fails, no guess is requested and the round loop goes on.
C11_UnanimousEndsGameFrom3 ==
    /\ []((SpyAccusedUnanimously /\ Len(players) >= 3) => EndedByForcedGuess)
    /\ []((SpyAccusedUnanimously /\ Len(players) = 2) =>
              /\ accusation.outcome = "failed"
              /\ ~earlyEnd.ended
              /\ guess.site # "accusation")
    /\ [][(SpyAccusedUnanimously /\ accusation.outcome = "convicted" /\ pc' # "done") =>
              /\ calls' = calls
              /\ turns' = turns
              /\ votes' = votes
              /\ roundCount' = roundCount
              /\ guess' = guess]_vars

\* three players, the spy accused, the one remaining player says yes, the
\* spy's forced guess is wrong and the civilians are announced as winners
\* with rounds to spare
C11_Witness ==
    /\ SpyAccusedUnanimously
    /\ Len(players) = 3
    /\ DOMAIN accusation.ballots # {}
    /\ pc = "finally"
    /\ result = "civilians"
    /\ roundCount < config.rounds


----------------------------------------------------------------------------
(* resolveTargetPlayer on its own: any list of distinctly named players, any
   acting player and last asker, any query *)

MaxResolvePlayers == 3

\* names as the tests and setupGame use them, some a substring of another
ResolveNames ==
    { <<"G","P","T">>, <<"G","P","T","-","1">>, <<"G","P","T","-","1","1">>,
      <<"B","o","b">>, <<"A","l">> }

\* the queries: the names as they are, in other casing and white space, parts
\* of names, texts that hold names, and texts that match nothing
ResolveQueries ==
    ResolveNames
        \cup {Pad(n) : n \in ResolveNames}
        \cup { <<"\t","B","O","B","\n">>, <<"G","P","T","-">>, <<"1">>, <<"o","b">>,
               <<"a","s","k"," ","g","p","t","-","1","1","1">>,
               <<"x","y">>, <<>>, <<" "," ">> }

\* Player[] with the given names; only the names matter to the function
playersNamed(names) ==
    [i \in 1..Len(names) |->
        [name |-> names[i], isHuman |-> FALSE, kind |-> "CIVILIAN"]]

ResolvePlayerLists ==
    UNION {{playersNamed(names) : names \in
               {ns \in [1..n -> ResolveNames] :
                   \A i, j \in 1..n : i # j => ns[i] # ns[j]}} :
           n \in 2..MaxResolvePlayers}

InitResolve ==
    /\ running = FALSE
    /\ pc = "idle"
    /\ config = NoConfig
    /\ players = <<>>
    /\ pack = <<>>
    /\ roundCount = 0
    /\ currentAsker = NULL
    /\ lastAsker = NULL
    /\ playersWhoAnswered = {}
    /\ usedVote = {}
    /\ actionsUnlockAnnounced = FALSE
    /\ turns = <<>>
    /\ earlyEnd = NoEarlyEnd
    /\ accusation = NoAccusation
    /\ votes = <<>>
    /\ voteIdx = 1
    /\ tally = NoTally
    /\ guess = NoGuess
    /\ spyGuessedRight = FALSE
    /\ result = "none"
    /\ calls = NoCalls
    /\ \E ps \in ResolvePlayerLists, q \in ResolveQueries :
         \E s \in Ids(ps), l \in Ids(ps) \cup {NULL} :
            call = [fn |-> "resolveTargetPlayer", players |-> ps, targetName |-> q,
                    selfId |-> s, lastAskerId |-> l]
    /\ ret = NoRet
    /\ NoAgents
    /\ NoSays
    /\ NoReacts
    /\ NoReadline

ResolveTargetPlayer ==
    /\ call.fn = "resolveTargetPlayer"
    /\ ~ret.done
    /\ \E p \in resolveTargetPlayer(call.players, call.targetName,
                                    call.selfId, call.lastAskerId) :
         ret' = [done |-> TRUE, value |-> p]
    /\ UNCHANGED <<running, pc, config, players, pack, roundCount, currentAsker,
                   lastAsker, playersWhoAnswered, usedVote, actionsUnlockAnnounced,
                   turns, earlyEnd, accusation, votes, voteIdx, tally, guess,
                   spyGuessedRight, result, calls, call, lifeVars, sayVars, reactVars, instVars>>

NextResolve == ResolveTargetPlayer

SpecResolve == InitResolve /\ [][NextResolve]_vars

\* resolveTargetPlayer has returned
Resolved == call.fn = "resolveTargetPlayer" /\ ret.done

\* the players other than the acting player and the last asker
LegalTargets == Ids(call.players) \ {call.selfId, call.lastAskerId}

\* the players whose name is the query up to casing and surrounding white space
NamedByQuery ==
    {p \in Ids(call.players) : TrimLower(call.players[p].name) = TrimLower(call.targetName)}

IsSubstring(a, b) ==
    \E i \in 0..(Len(b) - Len(a)) : \A k \in 1..Len(a) : b[i + k] = a[k]

\* the legal players whose name holds the query or is held by it, both
\* trimmed and in lower case
SubstringMatches ==
    {p \in LegalTargets :
        \/ IsSubstring(TrimLower(call.players[p].name), TrimLower(call.targetName))
        \/ IsSubstring(TrimLower(call.targetName), TrimLower(call.players[p].name))}

\* the answer is one of S whose name is as long as any in S
LongestOf(S) ==
    /\ ret.value \in S
    /\ \A q \in S : Len(TrimLower(call.players[q].name))
                        <= Len(TrimLower(call.players[ret.value].name))

----------------------------------------------------------------------------
(* parseField on its own: replies put together from a lead, the key in some
   casing, a colon, a gap, a value, a line end and a following line *)

ParseKeys == {GuessKey, VoteKey}

ParseLeads ==
    { <<>>, <<"M","Y">>, <<"I"," ","s","a","y"," ">>, <<"o","k","\n">>,
      <<"T","H","O","U","G","H","T",":"," ","h","m","\r","\n">> }

ParseKeyForms ==
    { VoteKey, <<"v","o","t","e">>, <<"V","o","t","e","s">>, <<"G","u","e","s","s">> }

ParseGaps == { <<>>, <<" ">>, <<" "," ">>, <<"\n">>, <<" ","\r","\n">> }

ParseValues ==
    { <<>>, <<"B","o","b">>, <<"a",":","b">>, <<"B","o","b"," "," ">> }

ParseLineEnds == { <<>>, <<"\n">>, <<"\r","\n">> }

ParseTails == { <<>>, <<"R","E","A","S","O","N",":"," ","x">>, <<"V","O","T","E",":"," ","A","l">> }

ParseTexts ==
    {lead \o form \o <<":">> \o gap \o value \o lineEnd \o tail :
        lead \in ParseLeads, form \in ParseKeyForms, gap \in ParseGaps,
        value \in ParseValues, lineEnd \in ParseLineEnds, tail \in ParseTails}
      \cup { <<>>, <<"V","O","T","E"," ","B","o","b">>, <<"B","o","b">> }

InitParse ==
    /\ running = FALSE
    /\ pc = "idle"
    /\ config = NoConfig
    /\ players = <<>>
    /\ pack = <<>>
    /\ roundCount = 0
    /\ currentAsker = NULL
    /\ lastAsker = NULL
    /\ playersWhoAnswered = {}
    /\ usedVote = {}
    /\ actionsUnlockAnnounced = FALSE
    /\ turns = <<>>
    /\ earlyEnd = NoEarlyEnd
    /\ accusation = NoAccusation
    /\ votes = <<>>
    /\ voteIdx = 1
    /\ tally = NoTally
    /\ guess = NoGuess
    /\ spyGuessedRight = FALSE
    /\ result = "none"
    /\ calls = NoCalls
    /\ \E key \in ParseKeys, text \in ParseTexts :
         call = [fn |-> "parseField", key |-> key, text |-> text]
    /\ ret = NoRet
    /\ NoAgents
    /\ NoSays
    /\ NoReacts
    /\ NoReadline

ParseField ==
    /\ call.fn = "parseField"
    /\ ~ret.done
    /\ ret' = [done |-> TRUE, value |-> parseField(call.key, call.text)]
    /\ UNCHANGED <<running, pc, config, players, pack, roundCount, currentAsker,
                   lastAsker, playersWhoAnswered, usedVote, actionsUnlockAnnounced,
                   turns, earlyEnd, accusation, votes, voteIdx, tally, guess,
                   spyGuessedRight, result, calls, call, lifeVars, sayVars, reactVars, instVars>>

NextParse == ParseField

SpecParse == InitParse /\ [][NextParse]_vars

\* parseField has returned
Parsed == call.fn = "parseField" /\ ret.done

\* the key and a colon stand at the 1-based position i of the text, the
\* letters compared without regard to case
KeyAt(i) ==
    /\ i + Len(call.key) <= Len(call.text)
    /\ \A k \in 1..Len(call.key) :
          toLowerCaseChar(call.text[i + k - 1]) = toLowerCaseChar(call.key[k])
    /\ call.text[i + Len(call.key)] = ":"

KeyPositions == {i \in 1..Len(call.text) : KeyAt(i)}

\* position i is the first of a line
LineStart(i) == i = 1 \/ call.text[i - 1] \in {"\n", "\r"}

FirstKey == CHOOSE i \in KeyPositions : \A j \in KeyPositions : i <= j

\* the positions after the colon of the first key
AfterFirstKey == (FirstKey + Len(call.key) + 1)..Len(call.text)

\* the positions after the colon of the first key that are on its line
OnLineOfFirstKey ==
    {i \in AfterFirstKey :
        \A j \in AfterFirstKey : j <= i => call.text[j] \notin {"\n", "\r"}}

\* the characters of the text at a set of positions, in order, without the
\* white space before the first and after the last inked character
TrimmedAt(positions) ==
    LET inked == {i \in positions : call.text[i] \notin WhiteSpace}
        first == CHOOSE i \in inked : \A j \in inked : i <= j
        last == CHOOSE i \in inked : \A j \in inked : j <= i
    IN  IF inked = {} THEN <<>>
        ELSE [k \in 1..(last - first + 1) |-> call.text[first + k - 1]]

\* C14 as stated: the result is empty whenever no line of the text starts with
\* the key and a colon, the key in any casing; so also when the key and colon
\* stand only in the middle of a line or at the end of a longer word.
C14_EmptyUnlessLineStart ==
    Parsed => ((\A i \in KeyPositions : ~LineStart(i)) => ret.value = <<>>)

\* C14 as amended: the result is empty exactly when the key and a colon occur
\* nowhere in the text, the key in any casing, or nothing but white space
\* follows their first occurrence; an occurrence in the middle of a line or at
\* the end of a longer word is an occurrence.
C14_EmptyIffNoOccurrence ==
    Parsed =>
        (ret.value = <<>> <=>
            \/ KeyPositions = {}
            \/ \A i \in AfterFirstKey : call.text[i] \in WhiteSpace)

\* the key in lower case is found in the middle of the first line
C14_Witness ==
    /\ Parsed
    /\ KeyPositions # {}
    /\ \A i \in KeyPositions : ~LineStart(i)
    /\ call.key = VoteKey
    /\ call.text[FirstKey] = "v"
    /\ ret.value = <<"B","o","b">>

\* C15: the result is the text after the first key and colon on that same line,
\* trimmed: later colons stay in it, a trailing \r is dropped, and a key with
\* nothing after it on its line gives the empty string, not the next line.
C15_SameLineOnly ==
    (Parsed /\ KeyPositions # {}) => ret.value = TrimmedAt(OnLineOfFirstKey)


----------------------------------------------------------------------------
(* setupGame on its own: the pack, the spy, the roles, the players and the
   agents, for slot lists of up to MaxSetupPlayers players *)

MaxSetupPlayers == 8

\* slot lists: the default rotation for 2 and more players, and lists with a
\* human and with providers in stateful mode
SetupSlotLists ==
    {legacyConfigToSlots([numPlayers |-> n]) : n \in 2..MaxSetupPlayers}
      \cup { <<Human, [type |-> "openai", mode |-> "memory"],
                      [type |-> "openai", mode |-> "stateful"]>>,
             <<[type |-> "google", mode |-> "stateful"], Human>> }

\* what may go wrong with the providers: nothing, no API key for one of them,
\* and a session of another that cannot be initialised as well
SetupEnvironments ==
    {[keyless |-> {}, initFails |-> {}],
     [keyless |-> {"anthropic"}, initFails |-> {}],
     [keyless |-> {"anthropic"}, initFails |-> {"openai"}]}

InitSetup ==
    /\ running = FALSE
    /\ pc = "idle"
    /\ config = NoConfig
    /\ players = <<>>
    /\ pack = <<>>
    /\ roundCount = 0
    /\ currentAsker = NULL
    /\ lastAsker = NULL
    /\ playersWhoAnswered = {}
    /\ usedVote = {}
    /\ actionsUnlockAnnounced = FALSE
    /\ turns = <<>>
    /\ earlyEnd = NoEarlyEnd
    /\ accusation = NoAccusation
    /\ votes = <<>>
    /\ voteIdx = 1
    /\ tally = NoTally
    /\ guess = NoGuess
    /\ spyGuessedRight = FALSE
    /\ result = "none"
    /\ calls = NoCalls
    /\ \E slots \in SetupSlotLists, locationName \in LocationNames,
          env \in SetupEnvironments :
         call = [fn |-> "setupGame", slots |-> slots, locationName |-> locationName,
                 keyless |-> env.keyless, initFails |-> env.initFails]
    /\ ret = NoRet
    /\ NoAgents
    /\ NoSays
    /\ NoReacts
    /\ NoReadline

SetupGame ==
    /\ call.fn = "setupGame"
    /\ ~ret.done
    /\ \E setup \in setupGame(call.slots, call.locationName, call.keyless,
                              call.initFails) :
         ret' = [done |-> TRUE, value |-> setup]
    /\ UNCHANGED <<running, pc, config, players, pack, roundCount, currentAsker,
                   lastAsker, playersWhoAnswered, usedVote, actionsUnlockAnnounced,
                   turns, earlyEnd, accusation, votes, voteIdx, tally, guess,
                   spyGuessedRight, result, calls, call, lifeVars, sayVars, reactVars, instVars>>

NextSetup == SetupGame

SpecSetup == InitSetup /\ [][NextSetup]_vars

\* setupGame has returned a GameSetup
SetUp == call.fn = "setupGame" /\ ret.done /\ ~ret.value.threw

Spies == {i \in Ids(ret.value.players) : ret.value.players[i].secret.kind = "SPY"}
Civilians == {i \in Ids(ret.value.players) : ret.value.players[i].secret.kind = "CIVILIAN"}

RoleOf(i) == ret.value.players[i].secret.role

\* the role list of the catalog entry of the chosen pack
PackRoles == {rolesOf(ret.value.pack)[k] : k \in 1..Len(rolesOf(ret.value.pack))}

OneSpyOthersCivilians ==
    /\ Cardinality(Spies) = 1
    /\ Spies \cup Civilians = Ids(ret.value.players)
    /\ Len(ret.value.players) = Len(call.slots)
    /\ \A i \in Civilians : ret.value.players[i].secret.location = ret.value.pack

----------------------------------------------------------------------------
(* Claims about run() when something goes wrong *)

\* the catalog entries a location name matches when casing is ignored
PacksNamed(name) ==
    {k \in 1..Len(LOCATIONS) : toLowerCase(LOCATIONS[k]) = toLowerCase(name)}

\* the config of the running game names a location no catalog entry matches
NamesUnknownLocation ==
    running /\ config.locationName # <<>> /\ PacksNamed(config.locationName) = {}

\* setup threw after the pack was chosen
SetupThrewLater ==
    pc = "finally" /\ error \in {"API key missing", "Provider init failed"}

\* C17: if the config names a location that matches no catalog entry when
\* casing is ignored, setup throws before any player or agent is created, no
\* question round, vote or guess takes place, and run() rejects with that
\* error; a name that matches an entry when casing is ignored selects exactly
\* that pack. (The setupGame that run() calls never reads the name.)
C17_UnknownLocationFatal ==
    /\ NamesUnknownLocation =>
          /\ pc = "finally"
          /\ error = "Location not found"
          /\ players = <<>> /\ agents = <<>> /\ constructed = {}
          /\ calls = NoCalls /\ turns = <<>> /\ votes = <<>> /\ guess = NoGuess
          /\ result = "none"
    /\ (pc = "done" /\ error = "Location not found") =>
          /\ settled = "rejected"
          /\ result = "none"
          /\ constructed = {} /\ cleaned = {}
    /\ \A k \in 1..Len(LOCATIONS) :
          (running /\ pc # "done" /\ k \in PacksNamed(config.locationName)) =>
             (pack = LOCATIONS[k] \/ SetupThrewLater)

\* run() has settled
Settled == pc = "done" /\ settled # "pending"

\* C18: every agent constructed for a game has its cleanup() invoked before
\* run() settles, on every path: normal end, early end, an exception thrown
\* during setup, also when one agent cannot be constructed or initialised
\* after others were created, or during play. (run() only learns of the agents
\* when setupGame returns.)
C18_AllConstructedCleaned ==
    Settled => constructed \subseteq cleaned

C20_ProviderFailureAbsorbed ==
    /\ sayOutcome \in {"none", "error string"}
    /\ error # "Provider call failed"


----------------------------------------------------------------------------
(* Claims about the end of the game and the question rounds *)

\* the final vote has picked the spy: the spy alone has the most votes
SpyCaught == FinalScorePrinted /\ StrictlyTop(votes, spyOf(players))

AccusationStarts == calls'.accuse = calls.accuse + 1

\* C22: each player starts the accusation procedure at most once in a game: a
\* player who starts it had not used the accusation and has used it from then
\* on, is never again allowed to accuse, and the set of players who used their
\* accusation only grows while the game lasts.
C22_AccuseAtMostOnce ==
    /\ [](/\ calls.accuse = Cardinality(usedVote)
          /\ \A p \in usedVote : ~canAccuse(p))
    /\ [][/\ AccusationStarts =>
               /\ canAccuse(currentAsker)
               /\ currentAsker \notin usedVote
               /\ usedVote' = usedVote \cup {currentAsker}
          /\ pc # "finally" => usedVote \subseteq usedVote'
          /\ calls'.accuse \in {0, calls.accuse, calls.accuse + 1}]_vars

\* a player who has used the accusation is the asker of a later iteration in
\* which the actions are offered
C22_Witness ==
    /\ pc = "rounds"
    /\ roundCount < config.rounds
    /\ actionsUnlocked
    /\ allowEarlyVote
    /\ currentAsker \in usedVote

\* C23: after an accusation that does not end the game the asker of the next
\* iteration is a player other than the accuser, the accuser is the previous
\* asker of that iteration, the iteration of the accusation is used up and no
\* Turn is recorded for it.
C23_AfterFailedAccusation ==
    [][(AccusationStarts /\ pc' = "rounds") =>
          /\ currentAsker' \in Ids(players) \ {currentAsker}
          /\ lastAsker' = currentAsker
          /\ turns' = turns
          /\ roundCount' = roundCount + 1
          /\ earlyEnd' = NoEarlyEnd]_vars

\* an accusation was voted down and the game goes on with another asker
C23_Witness ==
    /\ pc = "rounds"
    /\ accusation.outcome = "failed"
    /\ lastAsker = accusation.accuser
    /\ currentAsker # accusation.accuser
    /\ Len(players) = 3

\* this step is an accusation whose target name is the name of no player, or
\* the accuser's own
InvalidAccusation ==
    /\ AccusationStarts
    /\ accusation'.accused \in {NULL, currentAsker}

\* C24: when the name the accuser gives is no player's normalized name, or is
\* the accuser's own, the accusation is a no-op: no defense is asked for, no
\* accusation vote is cast, no guess is made, no winner is set and the game
\* goes on; yet the accuser's one accusation is spent and the iteration is
\* used up.
C24_InvalidAccusation ==
    [][InvalidAccusation =>
          /\ calls'.defendAgainstAccusation = calls.defendAgainstAccusation
          /\ calls'.voteOnAccusation = calls.voteOnAccusation
          /\ calls'.guessLocation = calls.guessLocation
          /\ accusation'.ballots = <<>>
          /\ earlyEnd' = NoEarlyEnd
          /\ result' = "none"
          /\ pc' = "rounds"
          /\ turns' = turns
          /\ currentAsker \notin usedVote
          /\ currentAsker \in usedVote'
          /\ roundCount' = roundCount + 1]_vars

\* a player accused themselves: nothing came of it and the accusation is spent
C24_Witness ==
    /\ pc = "rounds"
    /\ accusation.outcome = "invalid"
    /\ accusation.accused = accusation.accuser
    /\ accusation.accuser \in usedVote
    /\ calls.accuse = 1
    /\ calls.defendAgainstAccusation = 0

\* every player has answered at least once
AllAnswered == players # <<>> /\ playersWhoAnswered = Ids(players)

\* this step is an iteration of the question rounds
Iteration == pc = "rounds" /\ roundCount' = roundCount + 1

\* C25: the asker is offered the choice of action exactly in the iterations
\* that start after every player has answered at least once; the players who
\* have answered only become more, so the unlock never reverts; the unlock is
\* announced in the iteration in which the last player answers and at no
\* other time, so once in a game in which it happens and never otherwise.
C25_UnlockOnce ==
    /\ [](pc \in {"rounds", "earlyEnd", "voting", "spyGuess", "score"} =>
             (actionsUnlockAnnounced <=> AllAnswered))
    /\ [][/\ Iteration =>
               calls'.chooseAction = calls.chooseAction + (IF AllAnswered THEN 1 ELSE 0)
          /\ ~Iteration /\ pc # "finally" => calls'.chooseAction = calls.chooseAction
          /\ pc \notin {"finally", "done", "idle"} =>
               /\ playersWhoAnswered \subseteq playersWhoAnswered'
               /\ actionsUnlockAnnounced => actionsUnlockAnnounced'
               /\ (~actionsUnlockAnnounced /\ actionsUnlockAnnounced') =>
                     (Iteration /\ ~AllAnswered /\ Len(turns') = Len(turns) + 1
                        /\ playersWhoAnswered' = Ids(players))]_vars

\* the choice of action was offered in two iterations after the unlock
C25_Witness ==
    /\ pc = "rounds"
    /\ actionsUnlockAnnounced
    /\ calls.chooseAction = 2
    /\ Len(players) = 3

\* this step is an ask/answer exchange of the current asker that records one
\* Turn, with no guess and no accusation
AskedAndAnswered ==
    /\ Len(turns') = Len(turns) + 1
    /\ turns'[Len(turns')].askerId = currentAsker
    /\ calls'.ask = calls.ask + 1
    /\ calls'.answer = calls.answer + 1
    /\ calls'.guessLocation = calls.guessLocation
    /\ calls'.accuse = calls.accuse
    /\ guess' = guess
    /\ usedVote' = usedVote
    /\ earlyEnd' = NoEarlyEnd
    /\ pc' = "rounds"

\* the asker may not guess: it is not the spy
MayNotGuess == players[currentAsker].kind # "SPY"

\* the asker may not accuse: early accusations are off, or it has used its own
MayNotAccuse == ~config.allowEarlyVote \/ currentAsker \in usedVote

\* C26: a choice of action the asker is not eligible for never ends the game
\* and is taken as asking a question. Whatever an asker chooses that may
\* neither guess nor accuse, the iteration is an ask/answer exchange that
\* records one Turn; an asker that is not the spy makes no guess, and its
\* iteration is an exchange unless it starts an accusation; an asker that may
\* not accuse starts none, and its iteration is an exchange unless it is the
\* spy's guess.
C26_IneligibleChoiceAsks ==
    [][(Iteration /\ AllAnswered) =>
          /\ (MayNotGuess /\ MayNotAccuse) => AskedAndAnswered
          /\ MayNotGuess => (AskedAndAnswered \/ AccusationStarts)
          /\ MayNotGuess => guess'.site # "early"
          /\ MayNotAccuse =>
                /\ ~AccusationStarts
                /\ AskedAndAnswered \/ guess'.site = "early"]_vars

\* with early accusations off a civilian was offered the choice of action, and
\* the iteration recorded its question
C26_Witness ==
    /\ pc = "rounds"
    /\ ~config.allowEarlyVote
    /\ calls.chooseAction = 1
    /\ Len(turns) = Len(players) + 1
    /\ players[turns[Len(turns)].askerId].kind = "CIVILIAN"
    /\ calls.guessLocation = 0

\* this step records a Turn
TurnRecorded == Len(turns') = Len(turns) + 1

\* the Turn this step records
NewTurn == turns'[Len(turns')]

\* C27: every recorded Turn has a target other than its asker, and with 3 or
\* more players a target other than the previous asker as well, whatever name
\* the asker gave; the previous asker is the asker of the preceding exchange,
\* or the accuser of the preceding iteration when that was an accusation that
\* did not end the game.
C27_TargetLegal ==
    /\ [](/\ \A i \in 1..Len(turns) : turns[i].targetId # turns[i].askerId
          /\ pc = "rounds" =>
                IF accusation.outcome \in {"failed", "invalid"}
                THEN lastAsker = accusation.accuser
                ELSE IF turns # <<>>
                THEN lastAsker = turns[Len(turns)].askerId
                ELSE lastAsker = NULL)
    /\ [][TurnRecorded =>
             /\ NewTurn.askerId = currentAsker
             /\ NewTurn.targetId \in Ids(players) \ {currentAsker}
             /\ Len(players) >= 3 => NewTurn.targetId # lastAsker]_vars

\* among 3 players a Turn was recorded right after a failed accusation
C27_Witness ==
    /\ pc = "rounds"
    /\ Len(players) = 3
    /\ calls.accuse = 1
    /\ Len(turns) = 4
    /\ accusation = NoAccusation

\* C28: after an ask/answer exchange its target is the asker of the next
\* iteration and its asker the previous asker; so a Turn recorded with no
\* accusation in the iteration before it has the target of the Turn before it
\* as its asker, and while no accusation was made the Turns form one chain.
C28_TargetAsksNext ==
    /\ [](calls.accuse = 0 =>
             \A i \in 1..(Len(turns) - 1) : turns[i + 1].askerId = turns[i].targetId)
    /\ [][TurnRecorded =>
             /\ currentAsker' = NewTurn.targetId
             /\ lastAsker' = NewTurn.askerId
             /\ (turns # <<>> /\ accusation = NoAccusation) =>
                   NewTurn.askerId = turns[Len(turns)].targetId]_vars

\* four Turns in a chain among 3 players
C28_Witness ==
    /\ Len(players) = 3
    /\ Len(turns) = 4
    /\ calls.accuse = 0
    /\ \A i \in 1..3 : turns[i + 1].askerId = turns[i].targetId
    /\ currentAsker = turns[4].targetId

\* the votes counted so far
RECURSIVE SumCounts(_)
SumCounts(vs) == IF vs = <<>> THEN 0 ELSE vs[1].count + SumCounts(Tail(vs))

\* this step is a controller being asked for its vote
VoteAsked == calls'.vote = calls.vote + 1

\* C29: in the voting phase each player's controller is asked for a vote once,
\* in the order of the players, and each time exactly one vote is counted,
\* for a player of the game other than the voter, whatever the reply names;
\* so the votes counted are as many as the votes asked for, and N when the
\* phase is over.
C29_OneVoteEach ==
    /\ [](pc \in {"voting", "spyGuess", "score"} =>
             /\ calls.vote = voteIdx - 1
             /\ SumCounts(votes) = calls.vote
             /\ \A i \in 1..Len(votes) :
                   /\ votes[i].name \in Ids(players)
                   /\ votes[i].count >= 1
                   /\ \A j \in 1..Len(votes) : votes[j].name = votes[i].name => j = i)
    /\ [](pc \in {"spyGuess", "score"} =>
             /\ calls.vote = Len(players)
             /\ SumCounts(votes) = Len(players))
    /\ [][VoteAsked =>
             /\ pc = "voting"
             /\ voteIdx \in Ids(players)
             /\ voteIdx' = voteIdx + 1
             /\ \E n \in Ids(players) \ {voteIdx} :
                   /\ VotesFor(votes', n) = VotesFor(votes, n) + 1
                   /\ \A m \in Ids(players) \ {n} :
                         VotesFor(votes', m) = VotesFor(votes, m)]_vars

\* 3 players have voted and 3 votes are counted
C29_Witness ==
    /\ pc = "spyGuess"
    /\ Len(players) = 3
    /\ calls.vote = 3
    /\ SumCounts(votes) = 3


----------------------------------------------------------------------------
(* Claims about the events of Agent.say *)

\* the positions in events of the events of a kind with an id
EventsOf(id, kind) ==
    {i \in 1..Len(events) : events[i].id = id /\ events[i].kind = kind}

\* C30: for every call of Agent.say exactly one "sent" event is emitted before
\* the provider call, and once the call is over exactly one "received" event
\* with the same id has followed it, also when the provider call failed; no
\* two calls share an id. (A failure in memory mode leaves say() before
\* "received" is emitted.)
C30_SentAndReceived ==
    \A k \in DOMAIN says :
        /\ Cardinality(EventsOf(says[k].id, "sent")) = 1
        /\ Cardinality(EventsOf(says[k].id, "received")) =
              (IF says[k].state = "awaiting" THEN 0 ELSE 1)
        /\ \A i \in EventsOf(says[k].id, "sent"), j \in EventsOf(says[k].id, "received") :
              i < j
        /\ \A l \in DOMAIN says : says[l].id = says[k].id => l = k

----------------------------------------------------------------------------
(* Claims about the agents and the instance *)

\* the agents run() holds that were requested in stateful mode on a provider
\* that does not support it
Downgraded ==
    {a \in DOMAIN agents : /\ slotsOf(config)[a].mode = "stateful"
                           /\ ~supportsStateful(slotsOf(config)[a].type)}

\* C31: an agent requested in stateful mode on a provider that does not
\* support it is constructed in memory mode and its construction throws
\* nothing; every other agent has the mode requested. The mode of an agent
\* never changes while run() holds it, and a say() of the agent behaves as the
\* mode fixed at construction does: a provider failure is an error string of a
\* stateful agent and an exception of a memory agent.
C31_ModeFixedAtConstruction ==
    /\ [](running =>
            \A a \in DOMAIN agents :
                /\ a \in Downgraded => (agents[a] = "memory" /\ a \in constructed)
                /\ a \notin Downgraded => agents[a] = slotsOf(config)[a].mode)
    /\ [][/\ running' /\ running => agents' = agents
          /\ sayOutcome' \notin {sayOutcome, "none"} =>
                \E a \in nextCallee \cap DOMAIN agents :
                    sayOutcome' = (IF a \in Downgraded
                                      \/ slotsOf(config)[a].mode = "memory"
                                   THEN "threw" ELSE "error string")]_vars

\* the agent asked for stateful mode on anthropic plays in memory mode: setup
\* threw nothing, and later in the game a provider failure leaves its say() as
\* an exception
C31_Witness ==
    /\ running
    /\ Downgraded # {}
    /\ roundCount > 0
    /\ sayOutcome = "threw"
    /\ currentAsker \in Downgraded
    /\ error = "Provider call failed"

----------------------------------------------------------------------------
(* runQuestionRounds of phases/questionRounds.ts call by call: every
   controller call is issued in one step and returns in a later one, and the
   reactions of collectReactions are in flight together *)

MaxReactRounds == 4

ReactionFrequencies == {"always", "sometimes", "never"}

\* three agents, and the human with three agents
ReactSlotLists ==
    { <<[type |-> "openai", mode |-> "memory"],
        [type |-> "anthropic", mode |-> "memory"],
        [type |-> "google", mode |-> "memory"]>>,
      <<Human, [type |-> "openai", mode |-> "memory"],
               [type |-> "anthropic", mode |-> "memory"],
               [type |-> "google", mode |-> "memory"]>> }

\* the players setupGame makes of the slots; their roles play no part in the
\* rounds
reactPlayers(slots, spyIndex) ==
    playersOf(setupPlayers(slots, spyIndex, Casino,
                           [i \in 1..(Len(slots) - 1) |-> rolesOf(Casino)[i]]))

\* the reactors collectReactions asks: none under "never", all of them under
\* "always", otherwise those for which Math.random() < probability
activeReactors(rs, frequency) ==
    IF frequency = "never" THEN {{}}
    ELSE IF frequency = "always" THEN {rs}
    ELSE SUBSET rs

joinedOnFirst(active, returned) == active = {} \/ returned # {}

\* await Promise.all(...) of collectReactions resumes: every reaction asked for
\* has returned; collectReactions returns at once where it asks for none
joined(active, returned) == returned = active

\* one more call of the controller of player p is in flight
issue(flights, ps) == [q \in DOMAIN flights |-> IF q \in ps THEN flights[q] + 1 ELSE flights[q]]

\* a call of the controller of player p has returned
return(flights, p) == [flights EXCEPT ![p] = @ - 1]

\* runQuestionRounds is called: its locals before the loop
RoundsBegin ==
    /\ pc = "idle"
    /\ \E slots \in ReactSlotLists, numRounds \in 1..MaxReactRounds,
          early \in BOOLEAN, frequency \in ReactionFrequencies :
         \E spyIndex \in 1..Len(slots) :
            /\ players' = reactPlayers(slots, spyIndex)
            /\ config' = [NoConfig EXCEPT !.numPlayers = Len(slots), !.rounds = numRounds,
                                          !.allowEarlyVote = early, !.playerSlots = slots]
            /\ reactionFrequency' = frequency
            /\ inFlight' = [p \in 1..Len(slots) |-> 0]
            /\ \E first \in pickRandom(1..Len(slots)) : currentAsker' = first
    /\ pack' = Casino
    /\ roundCount' = 0
    /\ lastAsker' = NULL
    /\ playersWhoAnswered' = {}
    /\ usedVote' = {}
    /\ actionsUnlockAnnounced' = FALSE
    /\ turns' = <<>>
    /\ earlyEnd' = NoEarlyEnd
    /\ exchange' = NoExchange
    /\ calls' = NoCalls
    /\ pc' = "rounds"
    /\ UNCHANGED <<running, accusation, votes, voteIdx, tally, guess, spyGuessedRight,
                   result, utilVars, lifeVars, sayVars, instVars>>

\* what the steps of the loop leave alone
LoopFrame ==
    UNCHANGED <<running, config, players, pack, votes, voteIdx, tally,
                spyGuessedRight, result, reactionFrequency, utilVars, lifeVars,
                sayVars, instVars>>

\* the top of the loop: roundCount++, and the first call of the iteration, of
\* chooseAction once the actions are unlocked and of ask before
IterationBegins ==
    /\ pc = "rounds"
    /\ roundCount < config.rounds
    /\ roundCount' = roundCount + 1
    /\ inFlight' = issue(inFlight, {currentAsker})
    /\ IF actionsUnlocked
       THEN /\ calls' = [calls EXCEPT !.chooseAction = @ + 1]
            /\ pc' = "choosing"
       ELSE /\ calls' = [calls EXCEPT !.ask = @ + 1]
            /\ pc' = "asking"
    /\ UNCHANGED <<currentAsker, lastAsker, playersWhoAnswered, usedVote,
                   actionsUnlockAnnounced, turns, earlyEnd, guess, exchange, accusation>>
    /\ LoopFrame

\* the loop is left with the rounds used up
RoundsUsedUp ==
    /\ pc = "rounds"
    /\ roundCount >= config.rounds
    /\ pc' = "returned"
    /\ UNCHANGED <<roundCount, currentAsker, lastAsker, playersWhoAnswered, usedVote,
                   actionsUnlockAnnounced, turns, earlyEnd, guess, calls, inFlight,
                   exchange, accusation>>
    /\ LoopFrame

\* chooseAction returns: the spy's guess is asked for, or the accusation,
\* or the question
ChoiceReturns ==
    /\ pc = "choosing"
    /\ \E choice \in Actions :
         /\ inFlight' = issue(return(inFlight, currentAsker), {currentAsker})
         /\ IF takesGuess(choice, currentAsker)
            THEN /\ calls' = [calls EXCEPT !.guessLocation = @ + 1]
                 /\ pc' = "guessing"
                 /\ UNCHANGED usedVote
            ELSE IF takesAccusation(choice, currentAsker)
            THEN /\ usedVote' = usedVote \cup {currentAsker}
                 /\ calls' = [calls EXCEPT !.accuse = @ + 1]
                 /\ pc' = "accusing"
            ELSE /\ calls' = [calls EXCEPT !.ask = @ + 1]
                 /\ pc' = "asking"
                 /\ UNCHANGED usedVote
    /\ UNCHANGED <<roundCount, currentAsker, lastAsker, playersWhoAnswered,
                   actionsUnlockAnnounced, turns, earlyEnd, guess, exchange, accusation>>
    /\ LoopFrame

\* guessLocation returns to handleEarlySpyGuess, and the loop is left
GuessReturns ==
    /\ pc = "guessing"
    /\ inFlight' = return(inFlight, currentAsker)
    /\ \E guessRaw \in GuessTexts :
         /\ guess' = [site |-> "early", raw |-> guessRaw]
         /\ earlyEnd' = handleEarlySpyGuess(guessRaw, pack)
    /\ pc' = "returned"
    /\ UNCHANGED <<roundCount, currentAsker, lastAsker, playersWhoAnswered, usedVote,
                   actionsUnlockAnnounced, turns, calls, exchange, accusation>>
    /\ LoopFrame

\* the loop goes on with the EarlyEndResult of handleAccusation: it returns
\* it if ended, and otherwise picks another asker at random and continues
AccusationOver(ee) ==
    /\ exchange' = NoExchange
    /\ IF ee.ended
       THEN /\ earlyEnd' = ee
            /\ pc' = "returned"
            /\ UNCHANGED <<lastAsker, currentAsker>>
       ELSE /\ lastAsker' = currentAsker
            /\ \E next \in pickRandom(Ids(players) \ {currentAsker}) :
                 currentAsker' = next
            /\ pc' = "rounds"
            /\ UNCHANGED earlyEnd

\* handleAccusation once every voter has answered, with flights the calls in
\* flight: a convicted spy is asked for a guess, a convicted civilian ends the
\* game, and without a majority the accusation is over
AccusationTallied(ballots, flights) ==
    LET accused == exchange.target
        spy == spyOf(players)
    IN  /\ accusation' = [accusation EXCEPT
                            !.ballots = ballots,
                            !.yesVotes = countYes(ballots),
                            !.noVotes = countNo(ballots),
                            !.majority = majorityOf(players),
                            !.outcome = IF countYes(ballots) >= majorityOf(players)
                                        THEN "convicted" ELSE "failed"]
        /\ IF countYes(ballots) >= majorityOf(players)
           THEN IF spyWasConvicted(accused, spy)
                THEN /\ inFlight' = issue(flights, {spy})
                     /\ calls' = [calls EXCEPT !.guessLocation = @ + 1]
                     /\ exchange' = [exchange EXCEPT !.event = "guess"]
                     /\ UNCHANGED <<pc, earlyEnd, lastAsker, currentAsker>>
                ELSE /\ inFlight' = flights
                     /\ UNCHANGED calls
                     /\ AccusationOver(convictionResult(accused, spy, <<>>, pack))
           ELSE /\ inFlight' = flights
                /\ UNCHANGED calls
                /\ AccusationOver(NoEarlyEnd)

\* the next voter of the for loop over voters: players.filter keeps the order
\* of the players
nextVoter(voters, voted) ==
    CHOOSE v \in voters \ voted : \A w \in voters \ voted : v <= w

\* accuse returns to handleAccusation: an invalid accusation is skipped,
\* otherwise the accused is asked for a defense
AccuseReturns ==
    /\ pc = "accusing"
    /\ exchange.event = "none"
    /\ \E accused \in {findAccused(players, accusedName) :
                          accusedName \in NameInputs(players)} :
         IF isInvalidAccusation(accused, currentAsker)
         THEN /\ inFlight' = return(inFlight, currentAsker)
              /\ accusation' = [NoAccusation EXCEPT !.accuser = currentAsker,
                                                    !.accused = accused,
                                                    !.outcome = "invalid"]
              /\ UNCHANGED calls
              /\ AccusationOver(NoEarlyEnd)
         ELSE /\ inFlight' = issue(return(inFlight, currentAsker), {accused})
              /\ calls' = [calls EXCEPT !.defendAgainstAccusation = @ + 1]
              /\ accusation' = [NoAccusation EXCEPT !.accuser = currentAsker,
                                                    !.accused = accused]
              /\ exchange' = [target |-> accused, event |-> "defend",
                              active |-> accusationVoters(players, currentAsker, accused),
                              issued |-> {}, returned |-> {}]
              /\ UNCHANGED <<pc, earlyEnd, lastAsker, currentAsker>>
    /\ UNCHANGED <<roundCount, playersWhoAnswered, usedVote, actionsUnlockAnnounced,
                   turns, guess>>
    /\ LoopFrame

\* defendAgainstAccusation returns: the first voter is asked
DefenseReturns ==
    /\ pc = "accusing"
    /\ exchange.event = "defend"
    /\ IF exchange.active = {}
       THEN AccusationTallied(<<>>, return(inFlight, exchange.target))
       ELSE LET first == nextVoter(exchange.active, {})
            IN  /\ inFlight' = issue(return(inFlight, exchange.target), {first})
                /\ calls' = [calls EXCEPT !.voteOnAccusation = @ + 1]
                /\ exchange' = [exchange EXCEPT !.event = "vote", !.issued = {first}]
                /\ UNCHANGED <<pc, earlyEnd, lastAsker, currentAsker, accusation>>
    /\ UNCHANGED <<roundCount, playersWhoAnswered, usedVote, actionsUnlockAnnounced,
                   turns, guess>>
    /\ LoopFrame

\* voteOnAccusation returns: the next voter is asked, or the votes are counted
AccusationVoteReturns ==
    /\ pc = "accusing"
    /\ exchange.event = "vote"
    /\ \E voter \in exchange.issued \ exchange.returned, vote \in AccusationVotes :
         LET voted == exchange.returned \cup {voter}
             ballots == [v \in voted |-> IF v = voter THEN vote ELSE accusation.ballots[v]]
         IN  IF voted = exchange.active
             THEN AccusationTallied(ballots, return(inFlight, voter))
             ELSE LET next == nextVoter(exchange.active, voted)
                  IN  /\ inFlight' = issue(return(inFlight, voter), {next})
                      /\ calls' = [calls EXCEPT !.voteOnAccusation = @ + 1]
                      /\ exchange' = [exchange EXCEPT !.issued = @ \cup {next},
                                                      !.returned = voted]
                      /\ accusation' = [accusation EXCEPT !.ballots = ballots]
                      /\ UNCHANGED <<pc, earlyEnd, lastAsker, currentAsker>>
    /\ UNCHANGED <<roundCount, playersWhoAnswered, usedVote, actionsUnlockAnnounced,
                   turns, guess>>
    /\ LoopFrame

\* the forced guess of the convicted spy returns
ForcedGuessReturns ==
    /\ pc = "accusing"
    /\ exchange.event = "guess"
    /\ inFlight' = return(inFlight, exchange.target)
    /\ \E guessRaw \in GuessTexts :
         /\ guess' = [site |-> "accusation", raw |-> guessRaw]
         /\ AccusationOver(convictionResult(exchange.target, spyOf(players), guessRaw, pack))
    /\ UNCHANGED <<roundCount, playersWhoAnswered, usedVote, actionsUnlockAnnounced,
                   turns, accusation, calls>>
    /\ LoopFrame

\* collectReactions for the event: the reactors to ask are drawn, react is
\* called on the controller of each of them, with flights the calls in flight,
\* and Promise.all awaits them together
collectReactions(event, target, flights) ==
    \E active \in activeReactors(reactors(players, currentAsker, target),
                                 reactionFrequency) :
        /\ exchange' = [target |-> target, event |-> event, active |-> active,
                        issued |-> active, returned |-> {}]
        /\ inFlight' = issue(flights, active)
        /\ calls' = [calls EXCEPT !.react = @ + Cardinality(active)]

\* ask returns: the target is resolved, and the reactions to the question are
\* asked for
AskReturns ==
    /\ pc = "asking"
    /\ \E target \in UNION {resolveTargetPlayer(players, targetName, currentAsker, lastAsker) :
                               targetName \in NameInputs(players)} :
         collectReactions("question", target, return(inFlight, currentAsker))
    /\ pc' = "questionReactions"
    /\ UNCHANGED <<roundCount, currentAsker, lastAsker, playersWhoAnswered, usedVote,
                   actionsUnlockAnnounced, turns, earlyEnd, guess, accusation>>
    /\ LoopFrame

\* a reaction that was asked for returns
ReactionReturns ==
    /\ pc \in {"questionReactions", "answerReactions", "threw"}
    /\ \E p \in exchange.issued \ exchange.returned :
         /\ inFlight' = return(inFlight, p)
         /\ exchange' = [exchange EXCEPT !.returned = @ \cup {p}]
    /\ UNCHANGED <<pc, roundCount, currentAsker, lastAsker, playersWhoAnswered, usedVote,
                   actionsUnlockAnnounced, turns, earlyEnd, guess, accusation, calls>>
    /\ LoopFrame

\* a reaction that was asked for fails, as the say() of an agent in memory mode
\* does when its provider fails: Promise.all rejects with the others in
\* flight, and the exception leaves collectReactions and runQuestionRounds
ReactionFails ==
    /\ pc \in {"questionReactions", "answerReactions"}
    /\ \E p \in exchange.issued \ exchange.returned :
         /\ inFlight' = return(inFlight, p)
         /\ exchange' = [exchange EXCEPT !.returned = @ \cup {p}]
    /\ pc' = "threw"
    /\ UNCHANGED <<roundCount, currentAsker, lastAsker, playersWhoAnswered, usedVote,
                   actionsUnlockAnnounced, turns, earlyEnd, guess, accusation, calls>>
    /\ LoopFrame

\* the reactions to the question are in: the target is asked for its answer
QuestionReactionsJoined ==
    /\ pc = "questionReactions"
    /\ joined(exchange.active, exchange.returned)
    /\ inFlight' = issue(inFlight, {exchange.target})
    /\ calls' = [calls EXCEPT !.answer = @ + 1]
    /\ pc' = "answering"
    /\ UNCHANGED <<roundCount, currentAsker, lastAsker, playersWhoAnswered, usedVote,
                   actionsUnlockAnnounced, turns, earlyEnd, guess, accusation, exchange>>
    /\ LoopFrame

\* answer returns: the target has answered, the unlock is announced once, and
\* the reactions to the answer are asked for
AnswerReturns ==
    /\ pc = "answering"
    /\ playersWhoAnswered' = playersWhoAnswered \cup {exchange.target}
    /\ actionsUnlockAnnounced' =
          (actionsUnlockAnnounced
              \/ Cardinality(playersWhoAnswered \cup {exchange.target}) >= Len(players))
    /\ collectReactions("answer", exchange.target, return(inFlight, exchange.target))
    /\ pc' = "answerReactions"
    /\ UNCHANGED <<roundCount, currentAsker, lastAsker, usedVote, turns, earlyEnd, guess,
                   accusation>>
    /\ LoopFrame

\* the reactions to the answer are in: the Turn is recorded and the target
\* asks next
AnswerReactionsJoined ==
    /\ pc = "answerReactions"
    /\ joined(exchange.active, exchange.returned)
    /\ turns' = recordTurn(turns, currentAsker, exchange.target)
    /\ lastAsker' = currentAsker
    /\ currentAsker' = nextAsker(currentAsker, exchange.target)
    /\ exchange' = NoExchange
    /\ pc' = "rounds"
    /\ UNCHANGED <<roundCount, playersWhoAnswered, usedVote, actionsUnlockAnnounced,
                   earlyEnd, guess, accusation, calls, inFlight>>
    /\ LoopFrame

NextReact ==
    \/ RoundsBegin
    \/ IterationBegins
    \/ RoundsUsedUp
    \/ ChoiceReturns
    \/ GuessReturns
    \/ AccuseReturns
    \/ DefenseReturns
    \/ AccusationVoteReturns
    \/ ForcedGuessReturns
    \/ AskReturns
    \/ ReactionReturns
    \/ ReactionFails
    \/ QuestionReactionsJoined
    \/ AnswerReturns
    \/ AnswerReactionsJoined

SpecReact == Init /\ [][NextReact]_vars

----------------------------------------------------------------------------
(* Claims about the reactions *)

\* an exchange is under way: a question has been asked and its Turn is not
\* recorded yet
Exchanging == pc \in {"questionReactions", "answering", "answerReactions"}

\* no reaction call is in flight
NoReactionInFlight ==
    /\ exchange.issued = exchange.active
    /\ exchange.returned = exchange.active

\* C32: reactions are a join. The target's answer is requested only when every
\* reaction call to the question has returned, the Turn is recorded and the
\* next iteration started only when every reaction call to the answer has
\* returned, and while the reactions of an event are awaited all of them have
\* been issued.
C32_ReactionsJoin ==
    /\ [](Exchanging => exchange.issued = exchange.active)
    /\ [](pc = "answering" => (exchange.event = "question" /\ NoReactionInFlight))
    /\ [][/\ calls'.answer # calls.answer =>
                (pc = "questionReactions" /\ NoReactionInFlight)
          /\ Len(turns') > Len(turns) =>
                (pc = "answerReactions" /\ exchange.event = "answer"
                 /\ NoReactionInFlight)
          /\ roundCount' > roundCount =>
                \A p \in DOMAIN inFlight : inFlight[p] = 0]_vars

\* the answer was requested after two reactions to the question had returned
C32_Witness ==
    /\ pc = "answering"
    /\ Cardinality(exchange.returned) = 2
    /\ Len(turns) >= 1

\* the players who are neither the asker nor the target of the exchange under
\* way and are not human
Bystanders ==
    {p \in Ids(players) : /\ p # currentAsker
                          /\ p # exchange.target
                          /\ ~players[p].isHuman}

\* the react calls due under "always" for the turns ts: one for the question
\* and one for the answer of each turn, of every non-human player who is
\* neither its asker nor its target
RECURSIVE ReactionsDue(_)
ReactionsDue(ts) ==
    IF ts = <<>> THEN 0
    ELSE 2 * Cardinality({p \in Ids(players) : /\ p # Head(ts).askerId
                                               /\ p # Head(ts).targetId
                                               /\ ~players[p].isHuman})
         + ReactionsDue(Tail(ts))

\* C33: the players asked to react to a question or an answer are non-human
\* players that are neither the asker nor the target of the exchange; under
\* "never" no react call is made; under "always" every such bystander is asked,
\* for the question and for the answer of every turn.
C33_OnlyBystandersReact ==
    /\ exchange.event \in {"question", "answer"} => exchange.issued \subseteq Bystanders
    /\ reactionFrequency = "never" => calls.react = 0
    /\ (reactionFrequency = "always" /\ Exchanging) => exchange.issued = Bystanders
    /\ (reactionFrequency = "always" /\ pc \in {"rounds", "choosing", "asking", "returned"})
          => calls.react = ReactionsDue(turns)

\* under "always", after a turn the human watched and one the human took part
\* in, every reaction due was asked for, none of them of the human
C33_Witness ==
    /\ reactionFrequency = "always"
    /\ pc = "rounds"
    /\ \E h \in Ids(players) :
         /\ players[h].isHuman
         /\ \E i \in DOMAIN turns : h \notin {turns[i].askerId, turns[i].targetId}
         /\ \E i \in DOMAIN turns : h \in {turns[i].askerId, turns[i].targetId}
    /\ calls.react = ReactionsDue(turns)
    /\ calls.react = 2 + 4

\* the players with a call of their controller in flight
Busy == {p \in DOMAIN inFlight : inFlight[p] > 0}

\* C38: at every moment of the rounds, the reactions included, the controller
\* of each player has at most one call in flight.
C38_OneCallPerController ==
    \A p \in DOMAIN inFlight : inFlight[p] <= 1

\* two agents react to the answer at the same time, after both reacted to the
\* question
C38_Witness ==
    /\ pc = "answerReactions"
    /\ Cardinality(Busy) = 2
    /\ calls.react >= 4
    /\ exchange.returned = {}

----------------------------------------------------------------------------
(* run() called again on the instance while a game is running *)

MaxIgnoredRuns == 1

\* run(config) on an instance that is running a game, for a config of cfgs:
\* it returns at its first statement
RunIgnored(cfgs) ==
    /\ ~startsGame(running)
    /\ ignoredRuns < MaxIgnoredRuns
    /\ \E cfg \in cfgs : ignoredRuns' = ignoredRuns + 1
    /\ UNCHANGED <<gameVars, utilVars, lifeVars, sayVars, reactVars, rl, openHandles>>

\* the configs of run() that name no location
AgainConfigs == {cfg \in LifeConfigs : cfg.locationName = <<>>}

RunFirst == RunWith(AgainConfigs, LifeEnvironments)

RunAgain == RunIgnored(AgainConfigs)

NextAgain ==
    \/ RunFirst
    \/ RunAgain
    \/ AskQuestion
    \/ EarlySpyGuess
    \/ Accusation
    \/ RoundsDone
    \/ PrintEarlyEndResult
    \/ CastVote
    \/ TallyVotes
    \/ RunSpyGuessIfEligible
    \/ PrintFinalScore
    \/ ProviderCallFails
    \/ Finally

SpecAgain == Init /\ [][NextAgain]_vars

\* C34: a run() called while a game is in progress returns without a setup:
\* it creates no player and no agent and leaves the state of the running game
\* as it is; and from the start of a game to its end the instance holds that
\* one game, its config, players, location and agents.
C34_SecondRunIgnored ==
    /\ [][ignoredRuns' # ignoredRuns =>
             /\ running
             /\ UNCHANGED <<gameVars, lifeVars, reactVars, rl, openHandles>>]_vars
    /\ [][(running /\ pc # "finally") =>
             /\ running'
             /\ config' = config
             /\ players' = players
             /\ pack' = pack
             /\ agents' = agents
             /\ constructed' = constructed]_vars

\* run() was called again during the rounds of a game, which went on to its
\* voting phase
C34_Witness ==
    /\ ignoredRuns = 1
    /\ running
    /\ pc = "voting"
    /\ Len(turns) >= 2
    /\ DOMAIN agents # {}

----------------------------------------------------------------------------
(* Claims about the rounds as a whole *)

\* a choice was offered, a guess made or an accusation started in this game
EarlyActionSeen ==
    \/ calls.chooseAction > 0
    \/ calls.accuse > 0
    \/ guess.site \in {"early", "accusation"}
    \/ accusation.outcome # "none"
    \/ usedVote # {}

\* C36: no choice is offered, no early guess made and no accusation started
\* before the transcript holds as many turns as there are players; with
\* rounds <= the number of players the game never ends early, and the round
\* loop is left for the voting phase with exactly `rounds` turns.
C36_NoEarlyActionBeforeNTurns ==
    /\ [](EarlyActionSeen => Len(turns) >= Len(players))
    /\ []((pc \in {"rounds", "voting", "spyGuess", "score", "earlyEnd"}
             /\ config.rounds <= Len(players)) =>
            /\ ~EarlyActionSeen
            /\ ~earlyEnd.ended
            /\ pc # "earlyEnd"
            /\ pc = "voting" => Len(turns) = config.rounds)
    /\ [][(pc = "rounds" /\ pc' # "rounds" /\ config.rounds <= Len(players)) =>
             /\ pc' = "voting"
             /\ Len(turns') = config.rounds]_vars

\* three players, three rounds, early accusations allowed: every player has
\* answered when the rounds are used up, and the voting phase begins without a
\* choice ever offered
C36_Witness ==
    /\ pc = "voting"
    /\ Len(players) = 3
    /\ config.rounds = 3
    /\ allowEarlyVote
    /\ actionsUnlocked
    /\ actionsUnlockAnnounced
    /\ Len(turns) = 3
    /\ calls.chooseAction = 0

\* a game is in its rounds or past them, run() not yet in its finally block
InGame == pc \in {"rounds", "earlyEnd", "voting", "spyGuess", "score"}

\* the transcript ts is the beginning of the transcript us
IsPrefix(ts, us) ==
    /\ Len(ts) <= Len(us)
    /\ \A i \in DOMAIN ts : us[i] = ts[i]

\* C37: the transcript is never longer than the round counter, which is never
\* above `rounds`; while the game lasts the turns recorded stay as they are,
\* in place; the transcript changes in a loop iteration only, and an iteration
\* either appends exactly one Turn, with no guess and no accusation, or runs
\* an early guess or an accusation and appends none.
C37_TranscriptAppendOnly ==
    /\ [](InGame => (Len(turns) <= roundCount /\ roundCount <= config.rounds))
    /\ [][(InGame /\ pc' # "done") =>
             /\ IsPrefix(turns, turns')
             /\ turns' # turns => roundCount' = roundCount + 1
             /\ roundCount' = roundCount + 1 =>
                   \/ /\ Len(turns') = Len(turns) + 1
                      /\ calls'.guessLocation = calls.guessLocation
                      /\ calls'.accuse = calls.accuse
                   \/ /\ turns' = turns
                      /\ \/ calls'.guessLocation = calls.guessLocation + 1
                         \/ calls'.accuse = calls.accuse + 1]_vars

\* after three turns an accusation failed, and a fourth turn was recorded in
\* the fifth round
C37_Witness ==
    /\ pc = "rounds"
    /\ roundCount = 5
    /\ Len(turns) = 4
    /\ usedVote # {}
    /\ turns[4].targetId = currentAsker

----------------------------------------------------------------------------
(* A game whose calls all return: run() is resumed after every await *)

\* a step of a running game: the continuation of run() after the call it
\* awaits has returned
Play ==
    \/ AskQuestion
    \/ EarlySpyGuess
    \/ Accusation
    \/ RoundsDone
    \/ PrintEarlyEndResult
    \/ CastVote
    \/ TallyVotes
    \/ RunSpyGuessIfEligible
    \/ PrintFinalScore
    \/ Finally

MaxFairRounds == 4

\* the configs of the games followed to their end
FairConfigs ==
    [numPlayers : 2..MaxPlayers, rounds : 1..MaxFairRounds, allowEarlyVote : BOOLEAN,
     playerSlots : {<<>>}, locationName : {<<>>}, includeHuman : {FALSE}]

RunFair == RunWith(FairConfigs, {NoFailures})

NextFair ==
    \/ RunFair
    \/ Play

\* where run() stands: its phase, the round of the loop and the next voter
position == <<pc, roundCount, voteIdx>>

\* run() is resumed: the call a running game awaits returns and the game moves
\* on, to the next round, the next voter or another phase. Every step of Play
\* moves the position, and a running game is never without such a step.
Resumed ==
    /\ running
    /\ pc' \in {"rounds", "earlyEnd", "voting", "spyGuess", "score", "finally", "done"}
    /\ roundCount' \in 0..MaxFairRounds
    /\ voteIdx' \in 1..(MaxPlayers + 1)
    /\ position' # position

\* every call a game awaits returns, so that the game takes its next step;
\* when run() is called is up to the caller
SpecFair == Init /\ [][NextFair]_vars /\ WF_position(Resumed)

\* the result of the game has been announced
Announced == result \in {"spy", "civilians"}

\* C39: with every call returning, a started game reaches its end with its
\* result announced. The result is announced once in a game, by the early-end
\* result or by the final score, and the game is over after it; the round
\* loop runs at most `rounds` iterations, every player votes at most once in
\* the one voting phase, and at most one guess is asked for.
C39_GameOverOnce ==
    /\ running ~> (pc = "done" /\ ~running /\ Announced)
    /\ [](running =>
            /\ roundCount <= config.rounds
            /\ voteIdx <= Len(players) + 1
            /\ calls.vote <= Len(players)
            /\ calls.guessLocation <= 1
            /\ pc = "finally" => Announced
            /\ pc \in {"rounds", "earlyEnd", "voting", "spyGuess", "score"} => ~Announced)
    /\ [][(running /\ result' # result) =>
             /\ result = "none"
             /\ pc \in {"earlyEnd", "score"}
             /\ pc' = "finally"
             /\ (pc = "earlyEnd") = earlyEnd.ended
             /\ (pc = "earlyEnd") => calls.vote = 0]_vars

\* a game is over after all its rounds, its voting phase and the final guess
C39_Witness ==
    /\ pc = "finally"
    /\ Announced
    /\ roundCount = MaxFairRounds
    /\ calls.vote = Len(players)
    /\ calls.guessLocation = 1
    /\ ~earlyEnd.ended

====
